---- MODULE Spec2Model ----
(***************************************************************************)
(* Model of the Doorstep Analytics map crawler (web_scraper.py,            *)
(* session_handler.py, file_manager.py): the three map passes ('explore',  *)
(* 'stays', 'pricing'), the tile work-queue with its subdivision rule, the *)
(* per-listing reconciliation of _processListings and the price ledger of  *)
(* extractPricingToFile.                                                   *)
(*                                                                         *)
(* Python dicts are functions from key strings to values; a key that is    *)
(* missing is not in the DOMAIN.  Python None for a listing id is the      *)
(* string "None"; a local that was never assigned is "unbound".            *)
(***************************************************************************)
EXTENDS Integers, Sequences, FiniteSets, TLC

VARIABLES
    ctx,                    \* Context: country, isWebPreview, scrape flags, seed tile (and
                            \* the guests the pricing loop of the run walks)
    stage,                  \* number of map passes runAirbnbScrape has started
    runner_type,            \* WebScraper.runner_type
    pc,                     \* control point of runAirbnbScrape / iterateMapTiles
    session,                \* SessionHandler.check_in/check_out/week_label/adults
    mapTile_list,           \* the tile work-queue of iterateMapTiles
    coords,                 \* the tile popped last
    total_count,            \* iterateMapTiles' total, _processTile's total_count
    offset,                 \* _processTile's offset
    page_items,             \* listings of the current page handled so far
    listing_id,             \* _processListings' local listing_id
    downloaded_listingIDs,  \* WebScraper.downloaded_listingIDs
    updated_listingIDs,     \* WebScraper.updated_listingIDs
    preview_mapTileList,    \* WebScraper.preview_mapTileList
    overview,               \* data/<location>/overview/<id>.json
    pricing,                \* data/<location>/pricing/<id>.json
    docs,                   \* ids with a calendar / description / reviews file
    debug,                  \* names of the files under data/<location>/debug
    last,                   \* the listing handled last and what handling it did (with
                            \* the property-detail response, where one was read, and
                            \* the order of the calls, where the sub-fetches were reached)
    map_response,           \* iterateMapTiles' initial_response, _processTile's response
    fetched,                \* the offsets of the map requests issued for the tile popped last
    poll,                   \* the wait_for_workflow_completion call: where it stands, the
                            \* seconds since start_time and the state polled last
    req,                    \* the makeRequest call under way: its locals and its sleeps
    payloads,               \* calls of a payload builder with one argument list, with what
                            \* they returned
    today,                  \* datetime.now(), as far as the builders read it: <<year, month>>
    desc,                   \* the description folder, and where the two calls of
                            \* scrapeDescriptionToFile for a listing stand
    rev                     \* the scrapeReviewsToFile call under way: its locals, the
                            \* offsets it requested and the document it saved

vars == << ctx, stage, runner_type, pc, session, mapTile_list, coords,
           total_count, offset, page_items, listing_id, downloaded_listingIDs,
           updated_listingIDs, preview_mapTileList, overview, pricing, docs,
           debug, last, map_response, fetched, poll, req, payloads, today, desc, rev >>

-----------------------------------------------------------------------------
(* Bounds of the model *)

\* listings handled per page (the API returns up to 18)
MaxPageItems == 2

\* date windows of get_next_weekdays walked by the pricing loop (the code: 100)
NumWindows == 2

\* largest coordinate of a tile drawn for the subdivision check, in grid steps
MaxCoord == 3

\* subdivision is not followed beyond this zoom (only a broken ceiling gets here)
ZoomCap == 25

(* Program constants *)

PageSize == 18
DivideThreshold == 240
ZoomCeiling == 23
PreviewTileCap == 70
PreviewSubfetchCap == 50
RetryCap == 8
RateLimitCooldown == 1200
ExhaustedCooldown == 3600
ReviewPageSize == 24
PreviewReviewCap == 20
OffsetJump == 99999

\* guests walked by runAirbnbScrape for every date window
GuestList == << 2, 3, 4, 5, 6 >>

\* the first two of them, which the specifications that process listings walk
Guests == << 2, 3 >>

DO_NOT_TRANSLATE == { "UK", "Singapore", "Thailand", "Vietnam", "Australia",
                      "Ireland", "New Zealand", "Malaysia", "US", "Canada",
                      "South Africa" }

-----------------------------------------------------------------------------
(* Dicts *)

\* {**a, **b}: the keys of both, b's value where both have the key
DictMerge(a, b) == b @@ a

\* file_manager.saveJSONFile: the saved document is data plus 'RecordInserted'
\* (the time of the save; the model's clock is the pass number)
Stamped(data, now) == [RecordInserted |-> now] @@ data

Max(a, b) == IF a >= b THEN a ELSE b

-----------------------------------------------------------------------------
(* Tiles.  A tile is {neLat, neLng, swLat, swLng, zoom}.  Coordinates are    *)
(* exact numbers on a grid whose step is fine enough for every halving the   *)
(* model takes: a span is even wherever it is halved.                        *)

Tile(neLat, neLng, swLat, swLng, zoom) ==
    [neLat |-> neLat, neLng |-> neLng, swLat |-> swLat, swLng |-> swLng, zoom |-> zoom]

\* a bug that forgets to move the southern edge of the second child
divide_map_tiles_overlap(c) ==
    LET halfLat == (c.neLat - c.swLat) \div 2
        halfLng == (c.neLng - c.swLng) \div 2
        zoom    == c.zoom + 1
    IN  << Tile(c.neLat, c.neLng, c.swLat + halfLat, c.swLng + halfLng, zoom),
           Tile(c.neLat, c.neLng, c.swLat, c.swLng + halfLng, zoom),
           Tile(c.neLat, c.neLng - halfLng, c.swLat + halfLat, c.swLng, zoom),
           Tile(c.neLat - halfLat, c.neLng - halfLng, c.swLat, c.swLng, zoom) >>

\* WebScraper.divide_map_tiles
divide_map_tiles(c) ==
    LET halfLat == (c.neLat - c.swLat) \div 2
        halfLng == (c.neLng - c.swLng) \div 2
        zoom    == c.zoom + 1
    IN  << Tile(c.neLat, c.neLng, c.swLat + halfLat, c.swLng + halfLng, zoom),
           Tile(c.neLat - halfLat, c.neLng, c.swLat, c.swLng + halfLng, zoom),
           Tile(c.neLat, c.neLng - halfLng, c.swLat + halfLat, c.swLng, zoom),
           Tile(c.neLat - halfLat, c.neLng - halfLng, c.swLat, c.swLng, zoom) >>

\* a bug that takes the threshold as exclusive
ShouldDivide_exclusive(total, zoom) == total > DivideThreshold /\ zoom < ZoomCeiling

\* a bug that forgets the zoom ceiling
ShouldDivide_noceiling(total, zoom) == total >= DivideThreshold

\* iterateMapTiles: `if total >= 240 and coords['zoom'] < 23`
ShouldDivide(total, zoom) == total >= DivideThreshold /\ zoom < ZoomCeiling

(* A map response as far as the crawler reads it: the text at the pass's     *)
(* total-count location.  makeRequest returning None is NoResponse.          *)
NoResponse == [kind |-> "noresponse"]
CountResponse(n) == [kind |-> "count", n |-> n]
MissingCount == [kind |-> "missing"]
NoDigits == [kind |-> "nodigits"]

\* WebScraper.getTotalCount: the count, or the exception it ends with
getTotalCount(runner, response) ==
    IF runner = "explore"
    THEN \* int(dict_subset(...)): int(None) and int of a text without a number raise
         IF response.kind = "count"
         THEN [raised |-> FALSE, n |-> response.n]
         ELSE [raised |-> TRUE, n |-> 0]
    ELSE \* 'stays', 'pricing'
         IF response.kind \in {"noresponse", "missing"}
         THEN [raised |-> FALSE, n |-> 0]
         ELSE IF response.kind = "nodigits"
         THEN \* the bare except swallows the failed match, then the return
              \* reads totalCount_RegexMatch, which was never assigned
              [raised |-> TRUE, n |-> 0]
         ELSE [raised |-> FALSE, n |-> response.n]

\* a bug that pages in steps of 17
NextOffset_short(off) == off + PageSize - 1

\* _processTile: `offset += 18`
NextOffset(off) == off + PageSize

\* _processTile: `while offset < total_count`
PageLeft(off, total) == off < total

\* a loop that requests the first page again
PageFetched_again(list, off, items) == IF items = 0 THEN Append(list, off) ELSE list

\* _processTile: `response = initial_response if offset == 0 else makeRequest(...)`,
\* at the top of a loop turn (before the first listing of the page is handled):
\* the offsets requested for the tile so far
PageFetched(list, off, items) ==
    IF items = 0 /\ off > 0 THEN Append(list, off) ELSE list

\* an accepted tile of the 'explore' pass is kept however many ids are known
BuildsPreview_uncapped(runner, ids) == runner = "explore"

\* _processTile: `if self.runner_type == 'explore' and len(self.downloaded_listingIDs) <= 70`
BuildsPreview(runner, ids) == runner = "explore" /\ Cardinality(ids) <= PreviewTileCap

\* WebScraper._updatePreview_mapTiles
updatePreview_mapTiles(list, c) ==
    IF \E i \in 1..Len(list) : list[i] = c THEN list ELSE Append(list, c)

-----------------------------------------------------------------------------
(* Dates.  A date string 'YYYY-MM-DD' is the triple <<year, month, day>>.    *)

\* the Monday get_next_weekdays starts from, for a run in the week before it
NextMonday == << 2025, 7, 14 >>

\* (date + timedelta(days=k)).strftime('%Y-%m-%d'), for the days of July and
\* August 2025 the windows of the model fall in
AddDays(date, k) ==
    IF date[3] + k <= 31 THEN << date[1], date[2], date[3] + k >>
    ELSE << date[1], date[2] + 1, date[3] + k - 31 >>

\* get_next_weekdays()[i-1]: Monday-Friday 'weekday', then Friday-Sunday 'weekend'
Window(i) ==
    LET week   == (i - 1) \div 2
        monday == AddDays(NextMonday, 7 * week)
    IN  IF i % 2 = 1
        THEN [start |-> monday, end |-> AddDays(monday, 4), label |-> "weekday"]
        ELSE [start |-> AddDays(monday, 4), end |-> AddDays(monday, 6), label |-> "weekend"]

\* datetime.strptime(s, '%Y-%m-%d') as a number that orders dates as time does
strptime(s) == (s[1] * 12 + (s[2] - 1)) * 31 + (s[3] - 1)

NoDate == << >>

-----------------------------------------------------------------------------
(* Listings as the map APIs return them *)

\* the id token of a Stays result: base64 of 'DemandStayListing:<id>', kept as
\* the pair it encodes; any other token stands for one b64decode fails on
IdToken(id) == << "DemandStayListing:", id >>
BadToken == << "?" >>

\* an Explore item {'listing': {...}}; address is the set of words of publicAddress
ExploreItem(id, address) ==
    [listing |-> [id |-> id, publicAddress |-> address, name |-> "explore",
                  reviewsCount |-> 3]]
ExploreItemNoReviews(id, address) ==
    [listing |-> [id |-> id, publicAddress |-> address, name |-> "explore"]]
ExploreItemNoId == [listing |-> [publicAddress |-> {"Singapore"}, name |-> "explore"]]

\* a Stays / Pricing search result
StaysItem(typename, token) ==
    [__typename |-> typename, demandStayListing |-> [id |-> token],
     name |-> "stays", structuredDisplayPrice |-> "price"]
StaysItemExtra(typename, token) ==
    [__typename |-> typename, demandStayListing |-> [id |-> token],
     avgRatingLocalized |-> "4.9"]
StaysItemAt(typename, token, address) ==
    [__typename |-> typename, demandStayListing |-> [id |-> token],
     name |-> "stays", publicAddress |-> address]
SplitStayItem(token) ==
    [__typename |-> "StaySearchResult", demandStayListing |-> [id |-> token],
     splitStaysListings |-> << "a", "b" >>]
NoStayItem == [__typename |-> "StaySearchResult", name |-> "stays"]

\* the stayProductDetailPage of a property-detail response (None: NoDetail)
DetailPage == [kind |-> "page",
               page |-> [sections |-> [metadata |-> [sharingConfig |-> [reviewCount |-> 5]]]]]
DetailError == [kind |-> "page",
                page |-> [sections |-> [metadata |-> [errorData |-> "error"]]]]
NoDetail == [kind |-> "none"]

\* a test that forgets the split-stay listings
IsSplitStay_missingonly(e) == "demandStayListing" \notin DOMAIN e

\* `dict_subset(e, 'splitStaysListings') or dict_subset(e, 'demandStayListing') is None`
IsSplitStay(e) ==
    \/ ("splitStaysListings" \in DOMAIN e /\ e.splitStaysListings # << >>)
    \/ "demandStayListing" \notin DOMAIN e

\* a test that takes every search result for a listing
IsStaySearchResult_any(e) == TRUE

\* _processListings, case 1 of 'stays': `e.get('__typename') == 'StaySearchResult'`
IsStaySearchResult(e) == "__typename" \in DOMAIN e /\ e.__typename = "StaySearchResult"

\* the try block of _processListings: b64decode, decode, strip the prefix
DecodeListingId(e) ==
    LET d == e.demandStayListing
    IN  IF "id" \in DOMAIN d /\ Len(d.id) = 2 /\ d.id[1] = "DemandStayListing:"
        THEN [ok |-> TRUE, id |-> d.id[2]]
        ELSE [ok |-> FALSE, id |-> "None"]

\* the value of the local listing_id when `if not listing_id` is reached:
\* a failed decode leaves the value the previous listing of the page gave it
DerivedListingId(runner, e, previous) ==
    IF runner = "explore"
    THEN IF "listing" \in DOMAIN e /\ "id" \in DOMAIN e.listing THEN e.listing.id ELSE "None"
    ELSE IF DecodeListingId(e).ok THEN DecodeListingId(e).id ELSE previous

\* a filter with `in` for `not in`
AddressFiltered_inverted(country, e) ==
    /\ country = "Singapore"
    /\ "publicAddress" \in DOMAIN e
    /\ e.publicAddress # {}
    /\ country \in e.publicAddress

\* the universal cross-country filter: the listing is dropped
AddressFiltered(country, e) ==
    /\ country = "Singapore"
    /\ "publicAddress" \in DOMAIN e
    /\ e.publicAddress # {}
    /\ country \notin e.publicAddress

\* a reader that knows the review count of the Stays records only
HasReviewCount_staysonly(e) == "listing_stays" \in DOMAIN e

\* scrapeReviewsToFile finds a review count under one of its three keys
HasReviewCount(e) ==
    \/ "listing_stays" \in DOMAIN e
    \/ "reviewsCount" \in DOMAIN e
    \/ /\ "metadata" \in DOMAIN e
       /\ "sharingConfig" \in DOMAIN e.metadata
       /\ "reviewCount" \in DOMAIN e.metadata.sharingConfig

\* `t and t.get('sections') and not dict_subset(t, 'sections', 'metadata', 'errorData')`
DetailUsable(detail) ==
    /\ detail.kind = "page"
    /\ "sections" \in DOMAIN detail.page
    /\ ~ ( "metadata" \in DOMAIN detail.page.sections
           /\ "errorData" \in DOMAIN detail.page.sections.metadata )

-----------------------------------------------------------------------------
(* The price ledger *)

\* a bug that lets the entries of every guest count block the append
PriceBlocked_anyguests(prices, check_in, adults) ==
    \E i \in 1..Len(prices) : strptime(prices[i].start_date) >= strptime(check_in)

\* a bug that lets an equal check-in date through
PriceBlocked_strict(prices, check_in, adults) ==
    \E i \in 1..Len(prices) :
        /\ strptime(prices[i].start_date) > strptime(check_in)
        /\ prices[i].adults = adults

\* extractPricingToFile: `price_start_date >= current_start_date and guests == self.adults`
PriceBlocked(prices, check_in, adults) ==
    \E i \in 1..Len(prices) :
        /\ strptime(prices[i].start_date) >= strptime(check_in)
        /\ prices[i].adults = adults

\* file_manager.readJSONFile('pricing', id), or the fresh document of a first run
ReadPricing(store, id) ==
    IF id \in DOMAIN store THEN store[id] ELSE [listingid |-> id, prices |-> << >>]

\* extractPricingToFile's pricing_dict
PricingEntry(e, sess) ==
    [start_date |-> sess.check_in, end_date |-> sess.check_out,
     week_label |-> sess.week_label, adults |-> sess.adults,
     structuredDisplayPrice |->
        IF "structuredDisplayPrice" \in DOMAIN e THEN e.structuredDisplayPrice ELSE "None"]

\* a call that starts the ledger afresh instead of reading the file
extractPricingToFile_fresh(store, e, id, sess, now) ==
    (id :> Stamped([listingid |-> id, prices |-> << PricingEntry(e, sess) >>], now))
    @@ store

\* SessionHandler.extractPricingToFile: the pricing store after the call
extractPricingToFile(store, e, id, sess, now) ==
    LET existing == ReadPricing(store, id)
    IN  IF PriceBlocked(existing.prices, sess.check_in, sess.adults)
        THEN store
        ELSE (id :> Stamped([existing EXCEPT !.prices = Append(@, PricingEntry(e, sess))], now))
             @@ store

-----------------------------------------------------------------------------
(* The id trackers and the stores *)

\* a bug that reports every listing as new
trackDownloaded_always(ids, id) == [hit |-> TRUE, ids |-> ids \cup {id}]

\* a tracker that reports a new id without appending it
trackDownloaded_forget(ids, id) == [hit |-> id \notin ids, ids |-> ids]

\* WebScraper._trackDownloaded: whether id is new, and the list afterwards
trackDownloaded(ids, id) == [hit |-> id \notin ids, ids |-> ids \cup {id}]

\* WebScraper._trackUpdated
\* a tracker that reports every id as not yet updated
trackUpdated_always(ids, id) == [hit |-> TRUE, ids |-> ids \cup {id}]

\* a tracker that reports an id as not yet updated without appending it
trackUpdated_forget(ids, id) == [hit |-> id \notin ids, ids |-> ids]

trackUpdated(ids, id) == [hit |-> id \notin ids, ids |-> ids \cup {id}]

\* a bug that lists the folder of the price ledgers
listJSONFilesInFolder_pricing(ov, pr) == DOMAIN pr

\* FileManager.listJSONFilesInFolder: the names under data/<location>/overview,
\* whatever folder it is asked for
listJSONFilesInFolder(ov, pr) == DOMAIN ov

\* a preload that forgets the `is not None` test
StaysPreloaded_all(ov) == DOMAIN ov

\* _setup_scraper_context for 'stays': the ids of the stored records that carry
\* a 'listing_stays' document
StaysPreloaded(ov) ==
    { ov[i].listing_stays.id : i \in { j \in DOMAIN ov : "listing_stays" \in DOMAIN ov[j] } }

\* a bug that keeps only the new fields
MergeListing_dropold(existing, e) == e

\* a bug that lets the stored fields win
MergeListing_oldwins(existing, e) == DictMerge(e, existing)

\* _processListings, case 1 of 'stays': `e = {**existing, **e}`
MergeListing(existing, e) == DictMerge(existing, e)

NoLast == [e |-> [none |-> TRUE], id |-> "unbound", effects |-> {}]

\* calendar, description (and translation) and reviews of one listing: the
\* requests issued, the files written, the calls in the order they are made,
\* and whether scrapeReviewsToFile raised for want of a review count.
\* cal: the calendar response holds calendarMonths
SubFetch(e, id, cal) ==
    LET descReq  == ctx.scrapeDescription
        transReq == descReq /\ ctx.translate /\ ctx.country \notin DO_NOT_TRANSLATE
        revRaise == ctx.scrapeReviews /\ ~ HasReviewCount(e)
    IN  [raised  |-> revRaise,
         docs    |-> [calendar    |-> IF ctx.scrapeCalendar /\ cal
                                      THEN docs.calendar \cup {id} ELSE docs.calendar,
                      description |-> IF descReq
                                      THEN docs.description \cup {id} ELSE docs.description,
                      translated  |-> IF transReq
                                      THEN docs.translated \cup {id}
                                      ELSE IF descReq THEN docs.translated \ {id}
                                      ELSE docs.translated,
                      reviews     |-> IF ctx.scrapeReviews /\ ~ revRaise
                                      THEN docs.reviews \cup {id} ELSE docs.reviews],
         effects |-> (IF ctx.scrapeCalendar THEN {"calendar"} ELSE {})
                     \cup (IF descReq THEN {"description"} ELSE {})
                     \cup (IF transReq THEN {"translation"} ELSE {})
                     \cup (IF ctx.scrapeReviews /\ ~ revRaise THEN {"reviews"} ELSE {}),
         order   |-> (IF ctx.scrapeCalendar THEN << "calendar" >> ELSE << >>)
                     \o (IF descReq THEN << "description" >> ELSE << >>)
                     \o (IF transReq THEN << "translation" >> ELSE << >>)
                     \o (IF ctx.scrapeReviews THEN << "reviews" >> ELSE << >>)]

\* a loop turn that runs the sub-fetches whatever the number of known ids
Universal_uncapped(e, id, ids, cal) ==
    IF AddressFiltered(ctx.country, e)
    THEN [raised |-> FALSE, overview |-> overview, docs |-> docs, effects |-> {},
          order |-> << >>]
    ELSE LET sf == SubFetch(e, id, cal)
         IN  [raised   |-> sf.raised,
              overview |-> IF sf.raised THEN overview
                           ELSE (id :> Stamped(e, stage)) @@ overview,
              docs     |-> sf.docs,
              effects  |-> sf.effects \cup (IF sf.raised THEN {} ELSE {"overview"}),
              order    |-> sf.order \o (IF sf.raised THEN << >> ELSE << "overview" >>)]

\* the end of a loop turn of _processListings (UNIVERSAL FILTERS & LOGIC): the
\* cross-country filter, the sub-fetches under the preview cap, the overview save
Universal(e, id, ids, cal) ==
    IF AddressFiltered(ctx.country, e)
    THEN [raised |-> FALSE, overview |-> overview, docs |-> docs, effects |-> {},
          order |-> << >>]
    ELSE LET gate == (ctx.isWebPreview /\ Cardinality(ids) <= PreviewSubfetchCap)
                     \/ ~ ctx.isWebPreview
             sf   == IF gate THEN SubFetch(e, id, cal)
                     ELSE [raised |-> FALSE, docs |-> docs, effects |-> {}, order |-> << >>]
         IN  [raised   |-> sf.raised,
              overview |-> IF sf.raised THEN overview
                           ELSE (id :> Stamped(e, stage)) @@ overview,
              docs     |-> sf.docs,
              effects  |-> sf.effects \cup (IF sf.raised THEN {} ELSE {"overview"}),
              order    |-> sf.order \o (IF sf.raised THEN << >> ELSE << "overview" >>)]

-----------------------------------------------------------------------------
(* runAirbnbScrape and iterateMapTiles *)

\* the crawl actions below abstract makeRequest to the response it returns and
\* the payload builders to the request they stand for
AuxFrame == UNCHANGED << req, payloads, today, desc, rev >>

NumPricingPasses == NumWindows * Len(ctx.guests)

\* the runner of the pass runAirbnbScrape starts after `done` passes
RunnerAt(done) == IF done = 0 THEN "explore" ELSE IF done = 1 THEN "stays" ELSE "pricing"

\* the date window and the guests of the k-th pricing pass (dates outside, guests inside)
\* a loop nest with the guests outside and the date windows inside
PricingWindow_inner(k) == Window(((k - 1) % NumWindows) + 1)

PricingWindow(k) == Window(((k - 1) \div Len(ctx.guests)) + 1)
PricingGuests(k) == ctx.guests[((k - 1) % Len(ctx.guests)) + 1]

\* runAirbnbScrape has a pass left to start
HasNextPass == stage < 2 \/ (ctx.scrapePricing /\ stage - 2 < NumPricingPasses)

\* a pass that seeds the work-queue from the full-region seed whatever it is
SeedList_full(runner) == ctx.mapTile_init

\* iterateMapTiles: the list the work-queue of a pass is a copy of
SeedList(runner) ==
    IF ~ ctx.isWebPreview
    THEN ctx.mapTile_init
    ELSE IF runner # "pricing"
    THEN ctx.mapTile_init
    ELSE preview_mapTileList

\* runAirbnbScrape calls iterateMapTiles, which runs _setup_scraper_context and
\* seeds the work-queue
RunPass ==
    /\ pc = "main"
    /\ HasNextPass
    /\ LET runner == RunnerAt(stage)
           w      == PricingWindow(stage - 1)
       IN  /\ runner_type' = runner
           /\ stage' = stage + 1
           /\ session' =
                IF runner = "pricing"
                THEN [check_in |-> w.start, check_out |-> w.end,
                      week_label |-> w.label, adults |-> PricingGuests(stage - 1)]
                ELSE IF runner = "stays"
                THEN [session EXCEPT !.check_in = NoDate, !.check_out = NoDate, !.adults = 1]
                ELSE session
           /\ downloaded_listingIDs' = listJSONFilesInFolder(overview, pricing)
           /\ updated_listingIDs' = IF runner = "stays" THEN StaysPreloaded(overview) ELSE {}
           /\ preview_mapTileList' = IF runner = "explore" THEN << >> ELSE preview_mapTileList
           /\ mapTile_list' = SeedList(runner)
           /\ pc' = "tiles"
    /\ UNCHANGED << ctx, coords, total_count, offset, page_items, listing_id,
                    overview, pricing, docs, debug, last, map_response, fetched, poll >>
    /\ AuxFrame

\* runAirbnbScrape returns
Finish ==
    /\ pc = "main"
    /\ ~ HasNextPass
    /\ pc' = "done"
    /\ UNCHANGED << ctx, stage, runner_type, session, mapTile_list, coords, total_count,
                    offset, page_items, listing_id, downloaded_listingIDs,
                    updated_listingIDs, preview_mapTileList, overview, pricing, docs,
                    debug, last, map_response, fetched, poll >>
    /\ AuxFrame

\* one turn of `while mapTile_list`: pop a tile, fetch its first page, read the
\* total, then subdivide or enter _processTile
NextTile(response) ==
    /\ pc = "tiles"
    /\ mapTile_list # << >>
    /\ LET c     == Head(mapTile_list)
           rest  == Tail(mapTile_list)
           count == getTotalCount(runner_type, response)
       IN  /\ ~ (~ count.raised /\ ShouldDivide(count.n, c.zoom) /\ c.zoom >= ZoomCap)
           /\ coords' = c
           /\ IF count.raised
              THEN /\ pc' = "raised"
                   /\ mapTile_list' = rest
                   /\ debug' = IF runner_type # "explore" /\ response.kind = "nodigits"
                               THEN debug \cup {"cannot_extract_total_listing_count.json"}
                               ELSE debug
                   /\ UNCHANGED << total_count, offset, preview_mapTileList >>
              ELSE IF ShouldDivide(count.n, c.zoom)
              THEN /\ pc' = "tiles"
                   /\ mapTile_list' = rest \o divide_map_tiles(c)
                   /\ total_count' = count.n
                   /\ UNCHANGED << offset, preview_mapTileList, debug >>
              ELSE /\ mapTile_list' = rest
                   /\ total_count' = count.n
                   /\ offset' = 0
                   /\ preview_mapTileList' =
                        IF BuildsPreview(runner_type, downloaded_listingIDs)
                        THEN updatePreview_mapTiles(preview_mapTileList, c)
                        ELSE preview_mapTileList
                   /\ pc' = IF PageLeft(0, count.n) THEN "page" ELSE "tiles"
                   /\ debug' = debug
    /\ page_items' = 0
    /\ listing_id' = "unbound"
    /\ last' = NoLast
    /\ map_response' = response
    /\ fetched' = << 0 >>
    /\ poll' = poll
    /\ UNCHANGED << ctx, stage, runner_type, session, downloaded_listingIDs,
                    updated_listingIDs, overview, pricing, docs >>
    /\ AuxFrame

\* `while mapTile_list` ends: iterateMapTiles returns
EndPass ==
    /\ pc = "tiles"
    /\ mapTile_list = << >>
    /\ pc' = "main"
    /\ UNCHANGED << ctx, stage, runner_type, session, mapTile_list, coords, total_count,
                    offset, page_items, listing_id, downloaded_listingIDs,
                    updated_listingIDs, preview_mapTileList, overview, pricing, docs,
                    debug, last, map_response, fetched, poll >>
    /\ AuxFrame

\* a page response without listings (makeRequest returning None is NoResponse)
NoListings == [kind |-> "nolistings"]

\* _processTile: a page without listings.  The response goes to
\* debug/no_listing_data and the tile is left; when makeRequest returned None,
\* saveJSONFile(None, ...) raises on `data['RecordInserted'] = ...`.  The page
\* at offset 0 is the initial response, which gave the count.
EmptyPage(response) ==
    /\ pc = "page"
    /\ page_items = 0
    /\ response.kind = "noresponse" => offset > 0
    /\ map_response' = IF offset = 0 THEN map_response ELSE response
    /\ fetched' = PageFetched(fetched, offset, page_items)
    /\ poll' = poll
    /\ IF offset > 0 /\ response.kind = "noresponse"
       THEN pc' = "raised" /\ debug' = debug
       ELSE pc' = "tiles" /\ debug' = debug \cup {"no_listing_data"}
    /\ UNCHANGED << ctx, stage, runner_type, session, mapTile_list, coords, total_count,
                    offset, page_items, listing_id, downloaded_listingIDs,
                    updated_listingIDs, preview_mapTileList, overview, pricing, docs,
                    last >>
    /\ AuxFrame

\* _processTile: the listings of the page are done, `offset += 18`
EndPage ==
    /\ pc = "page"
    /\ page_items > 0
    /\ offset' = NextOffset(offset)
    /\ pc' = IF PageLeft(NextOffset(offset), total_count) THEN "page" ELSE "tiles"
    /\ page_items' = 0
    /\ listing_id' = "unbound"
    /\ last' = NoLast
    /\ UNCHANGED << ctx, stage, runner_type, session, mapTile_list, coords, total_count,
                    downloaded_listingIDs, updated_listingIDs, preview_mapTileList,
                    overview, pricing, docs, debug, map_response, fetched, poll >>
    /\ AuxFrame

-----------------------------------------------------------------------------
(* _processListings: one turn of `for e in listings`, per runner *)

ItemFrame == UNCHANGED << ctx, stage, runner_type, session, mapTile_list, coords,
                          total_count, offset, preview_mapTileList, map_response,
                          req, payloads, today, desc, rev >>

\* 'explore'
ProcessExplore(e, cal) ==
    /\ pc = "page"
    /\ runner_type = "explore"
    /\ page_items < MaxPageItems
    /\ page_items' = page_items + 1
    /\ LET id == DerivedListingId("explore", e, listing_id)
           td == trackDownloaded(downloaded_listingIDs, id)
           u  == Universal(e.listing, id, td.ids, cal)
       IN  /\ listing_id' = id
           /\ IF id = "None"
              THEN \* `if not listing_id`: debug/no_listing_ID, continue
                   /\ debug' = debug \cup {"no_listing_ID"}
                   /\ last' = [e |-> e, id |-> id, effects |-> {"debug"}]
                   /\ UNCHANGED << pc, downloaded_listingIDs, overview, docs >>
              ELSE IF ~ td.hit
              THEN \* already downloaded: continue
                   /\ last' = [e |-> e, id |-> id, effects |-> {}]
                   /\ UNCHANGED << pc, downloaded_listingIDs, overview, docs, debug >>
              ELSE /\ downloaded_listingIDs' = td.ids
                   /\ overview' = u.overview
                   /\ docs' = u.docs
                   /\ pc' = IF u.raised THEN "raised" ELSE pc
                   /\ last' = [e |-> e, id |-> id, effects |-> u.effects,
                               order |-> u.order]
                   /\ debug' = debug
    /\ UNCHANGED << updated_listingIDs, pricing >>
    /\ fetched' = PageFetched(fetched, offset, page_items)
    /\ poll' = poll
    /\ ItemFrame

\* 'stays'.  detail: the property-detail response, read only for a new listing
ProcessStays(e, detail, cal) ==
    /\ pc = "page"
    /\ runner_type = "stays"
    /\ page_items < MaxPageItems
    /\ page_items' = page_items + 1
    /\ IF IsSplitStay(e)
       THEN \* split stay: continue, before listing_id is assigned
            /\ last' = [e |-> e, id |-> listing_id, effects |-> {}]
            /\ UNCHANGED << pc, listing_id, downloaded_listingIDs, updated_listingIDs,
                            overview, docs, debug >>
       ELSE
        LET id      == DerivedListingId("stays", e, listing_id)
            dbg     == IF DecodeListingId(e).ok THEN debug
                       ELSE debug \cup {"no_listing_ID_Decoded"}
            typed   == IsStaySearchResult(e)
            td      == trackDownloaded(downloaded_listingIDs, id)
            tu      == trackUpdated(updated_listingIDs, id)
            augment == typed /\ id \in downloaded_listingIDs /\ tu.hit
            merged  == DictMerge(e, detail.page)
            u       == Universal(merged, id, td.ids, cal)
        IN  /\ listing_id' = id
            /\ IF id = "unbound"
               THEN \* the first listing of the page failed to decode: `if not
                    \* listing_id` reads a local that was never assigned
                    /\ pc' = "raised"
                    /\ debug' = dbg
                    /\ last' = [e |-> e, id |-> id, effects |-> {"debug"}]
                    /\ UNCHANGED << downloaded_listingIDs, updated_listingIDs, overview, docs >>
               ELSE IF augment
               THEN \* case 1: merge into the stored record
                    /\ updated_listingIDs' = tu.ids
                    /\ IF id \in DOMAIN overview
                       THEN /\ overview' =
                                 (id :> Stamped(MergeListing(overview[id], e), stage))
                                 @@ overview
                            /\ pc' = pc
                            /\ last' = [e |-> e, id |-> id, effects |-> {"overview"}]
                       ELSE \* readJSONFile gave None: {**None, **e} raises
                            /\ pc' = "raised"
                            /\ overview' = overview
                            /\ last' = [e |-> e, id |-> id, effects |-> {}]
                    /\ debug' = dbg
                    /\ UNCHANGED << downloaded_listingIDs, docs >>
               ELSE IF td.hit /\ tu.hit
               THEN \* case 2: a new listing, one property-detail request
                    /\ downloaded_listingIDs' = td.ids
                    /\ updated_listingIDs' = tu.ids
                    /\ IF DetailUsable(detail)
                       THEN /\ overview' = u.overview
                            /\ docs' = u.docs
                            /\ pc' = IF u.raised THEN "raised" ELSE pc
                            /\ debug' = dbg \cup {id}
                            /\ last' = [e |-> e, id |-> id, detail |-> detail,
                                        effects |-> u.effects \cup {"detail", "debug"},
                                        order |-> << "detail", "debug" >> \o u.order]
                       ELSE \* error metadata: debug/error_data.json, continue;
                            \* saveJSONFile(None, ...) raises when there is no page
                            /\ pc' = IF detail.kind = "none" THEN "raised" ELSE pc
                            /\ debug' = IF detail.kind = "none" THEN dbg
                                        ELSE dbg \cup {"error_data.json"}
                            /\ last' = [e |-> e, id |-> id, detail |-> detail,
                                        effects |-> {"detail", "debug"}]
                            /\ UNCHANGED << overview, docs >>
               ELSE \* neither case: continue (the trackers keep what they took)
                    /\ downloaded_listingIDs' = td.ids
                    /\ debug' = dbg
                    /\ last' = [e |-> e, id |-> id, effects |-> {}]
                    /\ UNCHANGED << pc, updated_listingIDs, overview, docs >>
    /\ UNCHANGED pricing
    /\ fetched' = PageFetched(fetched, offset, page_items)
    /\ poll' = poll
    /\ ItemFrame

\* 'pricing'
ProcessPricing(e) ==
    /\ pc = "page"
    /\ runner_type = "pricing"
    /\ page_items < MaxPageItems
    /\ page_items' = page_items + 1
    /\ IF IsSplitStay(e)
       THEN /\ last' = [e |-> e, id |-> listing_id, effects |-> {}]
            /\ UNCHANGED << pc, listing_id, updated_listingIDs, pricing, debug >>
       ELSE
        LET id    == DerivedListingId("pricing", e, listing_id)
            dbg   == IF DecodeListingId(e).ok THEN debug
                     ELSE debug \cup {"no_listing_ID_Decoded"}
            tu    == trackUpdated(updated_listingIDs, id)
            store == extractPricingToFile(pricing, e, id, session, stage)
        IN  /\ listing_id' = id
            /\ debug' = dbg
            /\ IF id = "unbound"
               THEN /\ pc' = "raised"
                    /\ last' = [e |-> e, id |-> id, effects |-> {"debug"}]
                    /\ UNCHANGED << updated_listingIDs, pricing >>
               ELSE \* `self._trackUpdated(listing_id) or listing_id in self.downloaded_listingIDs`
                    /\ updated_listingIDs' = tu.ids
                    /\ pc' = pc
                    /\ IF tu.hit \/ id \in downloaded_listingIDs
                       THEN /\ pricing' = store
                            /\ last' = [e |-> e, id |-> id,
                                        effects |-> IF store = pricing THEN {"ledger"}
                                                    ELSE {"ledger", "pricing"}]
                       ELSE /\ pricing' = pricing
                            /\ last' = [e |-> e, id |-> id, effects |-> {}]
    /\ UNCHANGED << downloaded_listingIDs, overview, docs >>
    /\ fetched' = PageFetched(fetched, offset, page_items)
    /\ poll' = poll
    /\ ItemFrame

-----------------------------------------------------------------------------
(* Configurations, stores left by an earlier run, and what the API returns *)

\* the seed tile of gcp_manager.getMapTiles, on a grid that halves twice
SeedTile(zoom) == Tile(4, 4, 0, 0, zoom)

Config(country, preview, reviews, withPricing, zoom) ==
    [country |-> country, isWebPreview |-> preview, scrapeCalendar |-> TRUE,
     scrapeDescription |-> TRUE, translate |-> TRUE, scrapeReviews |-> reviews,
     scrapePricing |-> withPricing, mapTile_init |-> << SeedTile(zoom) >>,
     guests |-> Guests]

EmptyStore == << >>
NoDocs == [calendar |-> {}, description |-> {}, translated |-> {}, reviews |-> {}]
NoSession == [check_in |-> NoDate, check_out |-> NoDate, week_label |-> "None", adults |-> 0]

\* an overview record and a price ledger an earlier run left on disk
PriorRecord(id) ==
    Stamped([id |-> id, publicAddress |-> {"Singapore"}, name |-> "explore",
             reviewsCount |-> 3], 0)
\* an overview record on disk that carries a 'listing_stays' document
PriorStaysRecord(id) ==
    Stamped([id |-> id, publicAddress |-> {"Singapore"}, name |-> "explore",
             reviewsCount |-> 3, listing_stays |-> [id |-> id]], 0)
PriorLedger(id, date, adults) ==
    Stamped([listingid |-> id,
             prices |-> << [start_date |-> date, end_date |-> AddDays(date, 2),
                            week_label |-> "weekend", adults |-> adults,
                            structuredDisplayPrice |-> "price"] >>], 0)

\* no map request was made yet
Unfetched == [kind |-> "unfetched"]

\* no makeRequest call is under way
IdleRequest == [pc |-> "idle", request_error_count |-> 0, attempts |-> 0,
                slept |-> << >>, result |-> "pending", status |-> [exception |-> "unsent"]]

\* the month the run starts in (the week before NextMonday)
RunMonth == << 2025, 7 >>

\* no description file yet, no call of scrapeDescriptionToFile made
IdleDescription == [pc |-> "idle", id |-> "None", files |-> << >>, calls |-> << >>]

\* no call of scrapeReviewsToFile under way
IdleReviews == [pc |-> "idle", reviewsCount |-> 0, offset |-> 0, reviews_list |-> << >>,
                requested |-> << >>, saved |-> "None"]

\* the page responses that carry no listing
PageResponses == { NoResponse, NoListings }

\* the state before runAirbnbScrape, for a configuration and the stores on disk
InitWith(config, ov, pr, tile) ==
    /\ ctx = config
    /\ stage = 0
    /\ runner_type = "none"
    /\ pc = "main"
    /\ session = NoSession
    /\ mapTile_list = << >>
    /\ coords = tile
    /\ total_count = 0
    /\ offset = 0
    /\ page_items = 0
    /\ listing_id = "unbound"
    /\ downloaded_listingIDs = {}
    /\ updated_listingIDs = {}
    /\ preview_mapTileList = << >>
    /\ overview = ov
    /\ pricing = pr
    /\ docs = NoDocs
    /\ debug = {}
    /\ last = NoLast
    /\ map_response = Unfetched
    /\ fetched = << >>
    /\ poll = [pc |-> "idle", elapsed |-> 0, state |-> "None"]
    /\ req = IdleRequest
    /\ payloads = {}
    /\ today = RunMonth
    /\ desc = IdleDescription
    /\ rev = IdleReviews

-----------------------------------------------------------------------------
(* SessionHandler.makeRequest.  req.pc is the position in `while True`: "top" *)
(* before the retry check, "send" before the HTTP request, "returned" after   *)
(* the call.  req.slept lists the r_sleep calls in order, in whole seconds.   *)

\* what one HTTP attempt ends with: a response, or an exception of requests
HttpResponse(status_code, decodable) ==
    [exception |-> "none", status_code |-> status_code, decodable |-> decodable]
HttpException(name) == [exception |-> name]

Slept(kind, secs) == [kind |-> kind, secs |-> secs]

\* `r_sleep(0.28)` of the finally block, which ends every attempt (under a second)
Pause == Slept("pause", 0)

\* a bug that lets one more attempt through
Exhausted_late(n) == n > RetryCap

\* makeRequest: `if request_error_count >= 8`
Exhausted(n) == n >= RetryCap

\* a bug that keeps the short schedule for every retry
Backoff_flat(n) == 10 * n

\* makeRequest: the r_sleep before a retry: 60*n from the fourth, 10*n before
\* (0: no sleep)
Backoff(n) == IF n >= 4 THEN 60 * n ELSE IF n > 0 THEN 10 * n ELSE 0

\* a bug that retries after a 415
Reaction_retry415(outcome) ==
    IF outcome.exception # "none" THEN "retry"
    ELSE IF outcome.status_code = 429 THEN "cooldown"
    ELSE IF outcome.status_code # 200 THEN "retry"
    ELSE IF outcome.decodable THEN "return" ELSE "retry"

\* a bug that retries a 429 without the cooldown
Reaction_nocooldown(outcome) ==
    IF outcome.exception # "none" THEN "retry"
    ELSE IF outcome.status_code = 415 THEN "break"
    ELSE IF outcome.status_code # 200 THEN "retry"
    ELSE IF outcome.decodable THEN "return" ELSE "retry"

\* makeRequest: what the body of the try block does with the outcome of the
\* attempt.  An exception is caught and logged; json.loads failing on the text
\* of a 200 is caught by `except Exception` like any other.
Reaction(outcome) ==
    IF outcome.exception # "none" THEN "retry"
    ELSE IF outcome.status_code = 429 THEN "cooldown"
    ELSE IF outcome.status_code = 415 THEN "break"
    ELSE IF outcome.status_code # 200 THEN "retry"
    ELSE IF outcome.decodable THEN "return" ELSE "retry"

crawl_vars == << ctx, stage, runner_type, pc, session, mapTile_list, coords,
                 total_count, offset, page_items, listing_id, downloaded_listingIDs,
                 updated_listingIDs, preview_mapTileList, overview, pricing, docs,
                 debug, last, map_response, fetched, poll, payloads, today, desc, rev >>

\* a call of makeRequest begins: `request_error_count = 0`
MakeRequest ==
    /\ req.pc \in {"idle", "returned"}
    /\ req' = [IdleRequest EXCEPT !.pc = "top"]
    /\ UNCHANGED crawl_vars

\* the head of `while True`: give up after the cap, or sleep before a retry
RetryCheck ==
    /\ req.pc = "top"
    /\ LET n == req.request_error_count
       IN  req' = IF Exhausted(n)
                  THEN [req EXCEPT !.slept = Append(@, Slept("cooldown", ExhaustedCooldown)),
                                   !.result = "None",
                                   !.pc = "returned"]
                  ELSE [req EXCEPT !.slept = IF Backoff(n) > 0
                                             THEN Append(@, Slept("backoff", Backoff(n)))
                                             ELSE @,
                                   !.pc = "send"]
    /\ UNCHANGED crawl_vars

\* one HTTP attempt, the handling of its outcome, and the finally block
Attempt(outcome) ==
    /\ req.pc = "send"
    /\ LET react == Reaction(outcome)
           after == IF react = "cooldown"
                    THEN << Slept("cooldown", RateLimitCooldown), Pause >>
                    ELSE << Pause >>
       IN  req' = [req EXCEPT !.attempts = @ + 1,
                              !.status = outcome,
                              !.request_error_count = @ + 1,
                              !.slept = @ \o after,
                              !.result = IF react = "return" THEN "json"
                                         ELSE IF react = "break" THEN "None"
                                         ELSE @,
                              !.pc = IF react \in {"return", "break"}
                                     THEN "returned" ELSE "top"]
    /\ UNCHANGED crawl_vars

\* what the server and the network can answer
Outcomes == { HttpResponse(200, TRUE), HttpResponse(200, FALSE), HttpResponse(429, TRUE),
              HttpResponse(415, TRUE), HttpResponse(405, TRUE), HttpResponse(500, TRUE),
              HttpException("Timeout"), HttpException("ConnectionError") }

RequestInit ==
    InitWith(Config("Germany", FALSE, FALSE, FALSE, 23), EmptyStore, EmptyStore,
             SeedTile(23))

RequestNext ==
    \/ MakeRequest
    \/ RetryCheck
    \/ \E outcome \in Outcomes : Attempt(outcome)

RequestSpec == RequestInit /\ [][RequestNext]_vars

-----------------------------------------------------------------------------
(* Spec: the Discovery and Fallback passes of one run (pricing switched off *)
(* in config.toml), over small tiles and every kind of listing              *)

SpecConfigs == { Config("Singapore", FALSE, TRUE, FALSE, 23),
                 Config("Germany", TRUE, FALSE, FALSE, 23),
                 Config("Germany", FALSE, TRUE, FALSE, 23) }

SpecResponses == { CountResponse(19), CountResponse(0), NoResponse }

ExploreItems == { ExploreItem("1", {"Singapore"}),
                  ExploreItem("1", {"Johor", "Malaysia"}),
                  ExploreItemNoReviews("2", {"Singapore"}),
                  ExploreItemNoId }

StaysItems == { StaysItem("StaySearchResult", IdToken("1")),
                StaysItemExtra("StaySearchResult", IdToken("1")),
                StaysItem("StayListing", IdToken("1")),
                StaysItem("StaySearchResult", IdToken("3")),
                StaysItemAt("StaySearchResult", IdToken("1"), {"Johor", "Malaysia"}),
                SplitStayItem(IdToken("1")),
                StaysItem("StaySearchResult", BadToken) }

Details == { DetailPage, DetailError, NoDetail }

Init ==
    \E config \in SpecConfigs, ov \in { EmptyStore, "1" :> PriorRecord("1") } :
        InitWith(config, ov, EmptyStore, config.mapTile_init[1])

Next ==
    \/ RunPass
    \/ Finish
    \/ \E r \in SpecResponses : NextTile(r)
    \/ EndPass
    \/ \E r \in PageResponses : EmptyPage(r)
    \/ EndPage
    \/ \E e \in ExploreItems, cal \in BOOLEAN : ProcessExplore(e, cal)
    \/ \E e \in StaysItems, d \in Details, cal \in BOOLEAN : ProcessStays(e, d, cal)

Spec == Init /\ [][Next]_vars

-----------------------------------------------------------------------------
(* PriceSpec: the pricing loop of runAirbnbScrape, from the states the       *)
(* Discovery and Fallback passes leave behind                                *)

PriceConfigs == { Config("Germany", TRUE, FALSE, TRUE, 23) }

PriceResponses == { CountResponse(19), CountResponse(0) }

PricingItems == { StaysItem("StaySearchResult", IdToken("1")),
                  StaysItem("StaySearchResult", IdToken("3")),
                  SplitStayItem(IdToken("1")),
                  StaysItem("StaySearchResult", BadToken) }

\* the record of listing 1 as the Discovery pass stores it
ExploredRecord(id) ==
    Stamped([id |-> id, publicAddress |-> {"Singapore"}, name |-> "explore",
             reviewsCount |-> 3], 1)

\* what the first two passes can leave: nothing found; listing 1 stored; listing
\* 1 stored and listing 3 tracked by the Fallback pass but dropped (its detail
\* reported an error), so that it has no record
AfterStays ==
    { [overview |-> EmptyStore, downloaded |-> {}, updated |-> {}],
      [overview |-> "1" :> ExploredRecord("1"), downloaded |-> {"1"}, updated |-> {}],
      [overview |-> "1" :> ExploredRecord("1"), downloaded |-> {"1", "3"},
       updated |-> {"3"}] }

PriceInit ==
    \E config \in PriceConfigs, s \in AfterStays,
       pr \in { EmptyStore, "1" :> PriorLedger("1", << 2025, 7, 18 >>, 2) } :
        /\ ctx = config
        /\ stage = 2
        /\ runner_type = "stays"
        /\ pc = "main"
        /\ session = [NoSession EXCEPT !.adults = 1]
        /\ mapTile_list = << >>
        /\ coords = config.mapTile_init[1]
        /\ total_count = 0
        /\ offset = 0
        /\ page_items = 0
        /\ listing_id = "unbound"
        /\ downloaded_listingIDs = s.downloaded
        /\ updated_listingIDs = s.updated
        /\ preview_mapTileList = config.mapTile_init
        /\ overview = s.overview
        /\ pricing = pr
        /\ docs = NoDocs
        /\ debug = {}
        /\ last = NoLast
        /\ map_response = Unfetched
        /\ fetched = << >>
        /\ poll = [pc |-> "idle", elapsed |-> 0, state |-> "None"]
        /\ req = IdleRequest
        /\ payloads = {}
        /\ today = RunMonth
        /\ desc = IdleDescription
        /\ rev = IdleReviews

PriceNext ==
    \/ RunPass
    \/ Finish
    \/ \E r \in PriceResponses : NextTile(r)
    \/ EndPass
    \/ \E r \in PageResponses : EmptyPage(r)
    \/ EndPage
    \/ \E e \in PricingItems : ProcessPricing(e)

PriceSpec == PriceInit /\ [][PriceNext]_vars

-----------------------------------------------------------------------------
(* TileSpec: a whole run over every kind of total count and seed zoom, with  *)
(* one kind of listing per pass                                              *)

TileConfigs == { Config("Germany", FALSE, FALSE, FALSE, 22),
                 Config("Germany", TRUE, FALSE, TRUE, 23) }

TileResponses == { CountResponse(0), CountResponse(50), CountResponse(239),
                   CountResponse(240), CountResponse(1000),
                   NoResponse, MissingCount, NoDigits }

\* the search results of the 'stays' and 'pricing' pages: a listing, and the
\* two shapes of a composite offer
TileItems == { StaysItem("StaySearchResult", IdToken("1")),
               SplitStayItem(IdToken("1")),
               NoStayItem }

\* the overview folder an earlier run left
TileStores == { EmptyStore, "1" :> PriorRecord("1"), "1" :> PriorStaysRecord("1") }

TileInit ==
    \E config \in TileConfigs, ov \in TileStores :
        InitWith(config, ov, EmptyStore, config.mapTile_init[1])

TileNext ==
    \/ RunPass
    \/ Finish
    \/ \E r \in TileResponses : NextTile(r)
    \/ EndPass
    \/ \E r \in PageResponses : EmptyPage(r)
    \/ EndPage
    \/ ProcessExplore(ExploreItem("1", {"Singapore"}), TRUE)
    \/ \E e \in TileItems : ProcessStays(e, DetailPage, TRUE)
    \/ \E e \in TileItems : ProcessPricing(e)

TileSpec == TileInit /\ [][TileNext]_vars

-----------------------------------------------------------------------------
(* QueueSpec: the Discovery and Fallback passes from a seed two zoom levels  *)
(* below the ceiling, so that children are subdivided in their turn          *)

QueueConfigs == { Config("Germany", FALSE, FALSE, FALSE, 21) }

QueueResponses == { CountResponse(0), CountResponse(19), CountResponse(240), NoResponse }

QueueInit ==
    \E config \in QueueConfigs :
        InitWith(config, EmptyStore, EmptyStore, config.mapTile_init[1])

QueueNext ==
    \/ RunPass
    \/ Finish
    \/ \E r \in QueueResponses : NextTile(r)
    \/ EndPass
    \/ \E r \in PageResponses : EmptyPage(r)
    \/ EndPage
    \/ ProcessExplore(ExploreItem("1", {"Singapore"}), TRUE)
    \/ ProcessStays(StaysItem("StaySearchResult", IdToken("1")), DetailPage, TRUE)

\* the crawl is one sequential thread: it takes its next step whenever it has one
QueueSpec == QueueInit /\ [][QueueNext]_vars /\ WF_vars(QueueNext)

-----------------------------------------------------------------------------
(* DivideSpec: divide_map_tiles applied to every tile of a bounded grid      *)

\* parents on the even grid, so that the halves are exact
ParentTiles ==
    { Tile(2 * a, 2 * b, 2 * c, 2 * d, z) :
        a \in 0..MaxCoord, b \in 0..MaxCoord, c \in 0..MaxCoord, d \in 0..MaxCoord,
        z \in {21, 22} }

DivideInit ==
    \E config \in SpecConfigs,
       t \in { p \in ParentTiles : p.neLat >= p.swLat /\ p.neLng >= p.swLng } :
        InitWith(config, EmptyStore, EmptyStore, t)

\* iterateMapTiles: `mapTile_list.extend(self.divide_map_tiles(coords))`
Divide ==
    /\ pc = "main"
    /\ mapTile_list = << >>
    /\ mapTile_list' = mapTile_list \o divide_map_tiles(coords)
    /\ UNCHANGED << ctx, stage, runner_type, pc, session, coords, total_count, offset,
                    page_items, listing_id, downloaded_listingIDs, updated_listingIDs,
                    preview_mapTileList, overview, pricing, docs, debug, last, map_response, fetched, poll >>
    /\ AuxFrame

DivideSpec == DivideInit /\ [][Divide]_vars

-----------------------------------------------------------------------------
(* The payload builders of SessionHandler.  A payload is modelled by the     *)
(* fields that are not literals of the source; base64 text is modelled as   *)
(* the text under its encoding.                                              *)

\* base64.b64encode(text.encode('utf-8')).decode('utf-8')
b64encode(text) == << "base64", text >>

\* a builder that takes the guests and dates of the session, as the map API
\* builder of the 'stays' and 'pricing' passes does
createExplorePayload_session(sess, c, off) ==
    [operationName |-> "ExploreSections",
     neLat |-> c.neLat, neLng |-> c.neLng, swLat |-> c.swLat, swLng |-> c.swLng,
     itemsOffset |-> off, zoomLevel |-> c.zoom, adults |-> sess.adults]

\* createExplorePayload(coords, offset)
createExplorePayload(sess, c, off) ==
    [operationName |-> "ExploreSections",
     neLat |-> c.neLat, neLng |-> c.neLng, swLat |-> c.swLat, swLng |-> c.swLng,
     itemsOffset |-> off, zoomLevel |-> c.zoom]

\* createPricingPayload(coords, pagination): reads self.adults, self.check_in
\* and self.check_out; `adults is None` is the guest count no pass has set
createPricingPayload(sess, c, pagination) ==
    LET adults     == IF sess.adults = 0 THEN 2 ELSE sess.adults
        raw_params == << << "guests", adults >>,
                         << "neLat", c.neLat >>, << "neLng", c.neLng >>,
                         << "swLat", c.swLat >>, << "swLng", c.swLng >>,
                         << "zoomLevel", c.zoom >> >>
                      \o (IF sess.check_in # NoDate
                          THEN << << "checkin", sess.check_in >> >> ELSE << >>)
                      \o (IF sess.check_out # NoDate
                          THEN << << "checkout", sess.check_out >> >> ELSE << >>)
        base       == [rawParams |-> raw_params]
    IN  [operationName |-> "StaysSearch",
         staysSearchRequest |->
            IF pagination # "None" THEN [cursor |-> pagination] @@ base ELSE base]

\* createDataPayloadMapAPI(runner_type, coords, offset)
createDataPayloadMapAPI(sess, runner, c, off) ==
    IF runner = "explore"
    THEN createExplorePayload(sess, c, off)
    ELSE createPricingPayload(sess, c,
            IF off > 0
            THEN b64encode([section_offset |-> 0, items_offset |-> off, version |-> 1])
            ELSE "None")

\* createPropertyDetailPayload(listing_id)
createPropertyDetailPayload(id) ==
    [operationName |-> "StaysPdpSections", id |-> b64encode(<< "StayListing:", id >>)]

\* createCalendarPayload(listing_id): reads datetime.now()
createCalendarPayload(now, id) ==
    [operationName |-> "PdpAvailabilityCalendar", count |-> 12, listingId |-> id,
     month |-> now[2], year |-> now[1]]

\* createReviewsPayload(listing_id, offset)
createReviewsPayload(id, off) ==
    [operationName |-> "StaysPdpReviewsQuery", id |-> b64encode(<< "StayListing:", id >>),
     limit |-> 24, offset |-> off]

\* how many builder calls are kept, and how many months the run may last
MaxCalls == 2
MonthsAhead == 1

MonthIndex(now) == now[1] * 12 + now[2] - 1
NextMonth(now) == IF now[2] = 12 THEN << now[1] + 1, 1 >> ELSE << now[1], now[2] + 1 >>

\* the arguments the builders are called with
PayloadTiles == { SeedTile(23), Tile(2, 2, 0, 0, 23) }
PayloadOffsets == { 0, PageSize }
PayloadIds == { "1", "2" }
ReviewOffsets == { 0, 24 }

\* one call of a builder: its arguments, the session fields and the date at
\* the time of the call, and the payload returned
Call(builder, args, payload) ==
    [builder |-> builder, args |-> args, session |-> session, now |-> today,
     payload |-> payload]

\* two calls of one builder with identical arguments
SameCall(a, b) == a.builder = b.builder /\ a.args = b.args

\* the calls kept are calls of one builder with one argument list; any other
\* call made in between changes nothing and is a stuttering step
Record(call) ==
    /\ pc \in {"main", "tiles"}
    /\ \A kept \in payloads : SameCall(kept, call)
    /\ Cardinality(payloads \cup {call}) <= MaxCalls
    /\ payloads' = payloads \cup {call}
    /\ UNCHANGED << ctx, stage, runner_type, pc, session, mapTile_list, coords, total_count,
                    offset, page_items, listing_id, downloaded_listingIDs,
                    updated_listingIDs, preview_mapTileList, overview, pricing, docs,
                    debug, last, map_response, fetched, poll, req, today, desc, rev >>

\* _fetchInitialTile and _processTile: createDataPayloadMapAPI for a page of a
\* tile ('stays' and 'pricing' passes call it once the pass has set the guests)
BuildMapPayload(runner, c, off) ==
    /\ runner # "explore" => session.adults # 0
    /\ Record(Call(IF runner = "explore" THEN "createExplorePayload"
                                         ELSE "createPricingPayload",
                   << c, off >>,
                   createDataPayloadMapAPI(session, runner, c, off)))

\* _processListings: createPropertyDetailPayload for a listing
BuildDetailPayload(id) ==
    Record(Call("createPropertyDetailPayload", << id >>, createPropertyDetailPayload(id)))

\* extractCalendarToFile: createCalendarPayload for a listing
BuildCalendarPayload(id) ==
    Record(Call("createCalendarPayload", << id >>, createCalendarPayload(today, id)))

\* scrapeReviewsToFile: createReviewsPayload for a page of reviews
BuildReviewsPayload(id, off) ==
    Record(Call("createReviewsPayload", << id, off >>, createReviewsPayload(id, off)))

\* the month ends while the run goes on
MonthTurns ==
    /\ MonthIndex(today) < MonthIndex(RunMonth) + MonthsAhead
    /\ today' = NextMonth(today)
    /\ UNCHANGED << ctx, stage, runner_type, pc, session, mapTile_list, coords, total_count,
                    offset, page_items, listing_id, downloaded_listingIDs,
                    updated_listingIDs, preview_mapTileList, overview, pricing, docs,
                    debug, last, map_response, fetched, poll, req, payloads, desc, rev >>

PayloadInit ==
    InitWith(Config("Germany", FALSE, FALSE, TRUE, 23), EmptyStore, EmptyStore, SeedTile(23))

PayloadNext ==
    \/ RunPass
    \/ NextTile(CountResponse(0))
    \/ EndPass
    \/ Finish
    \/ MonthTurns
    \/ \E runner \in {"explore", "stays"}, c \in PayloadTiles, off \in PayloadOffsets :
            BuildMapPayload(runner, c, off)
    \/ \E id \in PayloadIds : BuildDetailPayload(id)
    \/ \E id \in PayloadIds : BuildCalendarPayload(id)
    \/ \E id \in PayloadIds, off \in ReviewOffsets : BuildReviewsPayload(id, off)

PayloadSpec == PayloadInit /\ [][PayloadNext]_vars

-----------------------------------------------------------------------------
(* The sequence of passes of runAirbnbScrape, with all five guest counts of  *)
(* the pricing loop, over tiles whose 'stays' and 'pricing' pages hold no    *)
(* listing, from an overview folder below, at and above the preview cap      *)

\* an overview folder of n records an earlier run left, none of them of id '1'
BulkStore(n) == [id \in { ToString(k) : k \in 2..(n + 1) } |-> PriorRecord(id)]

ScheduleConfigs ==
    { [Config("Germany", preview, FALSE, withPricing, 22) EXCEPT !.guests = GuestList] :
        preview \in BOOLEAN, withPricing \in BOOLEAN }

ScheduleResponses == { CountResponse(0), CountResponse(19), CountResponse(50),
                       CountResponse(240) }

ScheduleInit ==
    \E config \in ScheduleConfigs,
       ov \in { EmptyStore, BulkStore(PreviewTileCap), BulkStore(PreviewTileCap + 1) } :
        InitWith(config, ov, EmptyStore, config.mapTile_init[1])

ScheduleNext ==
    \/ RunPass
    \/ \E r \in ScheduleResponses : NextTile(r)
    \/ EmptyPage(NoListings)
    \/ ProcessExplore(ExploreItem("1", {"Singapore"}), TRUE)
    \/ EndPage
    \/ EndPass
    \/ Finish

ScheduleSpec == ScheduleInit /\ [][ScheduleNext]_vars

-----------------------------------------------------------------------------
(* scrapeDescriptionToFile and its two calls in _processListings *)

\* calls of scrapeDescriptionToFile followed in one run
MaxDescriptionCalls == 4

\* a description response with its sections
SectionsResponse(text) == [kind |-> "sections", text |-> text]

\* dict_subset(response, 'data', 'presentation', 'stayProductDetailPage', 'sections')
Sections(response) == IF response.kind = "sections" THEN response.text ELSE "None"

\* a translate branch that saves the translation alone
scrapeDescriptionToFile_fresh(files, id, translate, response, now) ==
    [raised |-> FALSE,
     files  |-> (id :> Stamped(IF translate
                               THEN [translatedDescription |-> Sections(response)]
                               ELSE [originalDescription |-> Sections(response)], now))
                @@ files]

\* scrapeDescriptionToFile(listing_id, translate): the description folder after
\* the call; readJSONFile gives None for a missing file, and the item
\* assignment on None raises
scrapeDescriptionToFile(files, id, translate, response, now) ==
    LET d == Sections(response)
    IN  IF ~ translate
        THEN [raised |-> FALSE,
              files  |-> (id :> Stamped([originalDescription |-> d], now)) @@ files]
        ELSE IF id \notin DOMAIN files
        THEN [raised |-> TRUE, files |-> files]
        ELSE [raised |-> FALSE,
              files  |-> (id :> Stamped(("translatedDescription" :> d) @@ files[id], now))
                         @@ files]

DescriptionFrame ==
    UNCHANGED << ctx, stage, runner_type, pc, session, mapTile_list, coords, total_count,
                 offset, page_items, listing_id, downloaded_listingIDs,
                 updated_listingIDs, preview_mapTileList, overview, pricing, docs,
                 debug, last, map_response, fetched, poll, req, payloads, today, rev >>

\* _processListings: `if ctx.scrapeDescription: scrapeDescriptionToFile(listing_id)`
DescribeListing(id, response) ==
    /\ desc.pc = "idle"
    /\ ctx.scrapeDescription
    /\ Len(desc.calls) < MaxDescriptionCalls
    /\ LET out == scrapeDescriptionToFile(desc.files, id, FALSE, response,
                                          Len(desc.calls) + 1)
       IN  desc' = [pc    |-> IF ctx.translate /\ ctx.country \notin DO_NOT_TRANSLATE
                              THEN "translate" ELSE "idle",
                    id    |-> id,
                    files |-> out.files,
                    calls |-> Append(desc.calls, << id, FALSE >>)]
    /\ DescriptionFrame

\* _processListings: `scrapeDescriptionToFile(listing_id, translate=True)`
TranslateListing(response) ==
    /\ desc.pc = "translate"
    /\ LET out == scrapeDescriptionToFile(desc.files, desc.id, TRUE, response,
                                          Len(desc.calls) + 1)
       IN  desc' = [pc    |-> IF out.raised THEN "raised" ELSE "idle",
                    id    |-> desc.id,
                    files |-> out.files,
                    calls |-> Append(desc.calls, << desc.id, TRUE >>)]
    /\ DescriptionFrame

DescriptionResponses == { NoResponse, SectionsResponse("a"), SectionsResponse("b") }

DescriptionInit ==
    \E country \in {"Germany", "Singapore"} :
        InitWith(Config(country, FALSE, FALSE, FALSE, 23), EmptyStore, EmptyStore,
                 SeedTile(23))

DescriptionNext ==
    \/ \E id \in {"1", "2"}, r \in DescriptionResponses : DescribeListing(id, r)
    \/ \E r \in DescriptionResponses : TranslateListing(r)

DescriptionSpec == DescriptionInit /\ [][DescriptionNext]_vars

-----------------------------------------------------------------------------
(* scrapeReviewsToFile: one action per turn of `while offset < reviewsCount` *)

\* review pages followed for one listing
MaxReviewPages == 3

\* the reviews of the page requested at an offset, n of them
ReviewsOfPage(off, n) == [i \in 1..n |-> << off, i >>]

\* `len(reviews_list) >= 20 and self.ctx.isWebPreview` becomes true while the
\* n reviews of a page are appended to a list of length len
Capped(len, n, preview) == preview /\ n >= 1 /\ len + n >= PreviewReviewCap

\* a loop that appends the whole page before it looks at the cap
KeptOfPage_whole(len, n, preview) == n

\* how many reviews of the page the `for` loop appends before its `break`
KeptOfPage(len, n, preview) ==
    IF Capped(len, n, preview) THEN Max(1, PreviewReviewCap - len) ELSE n

ReviewsFrame ==
    UNCHANGED << ctx, stage, runner_type, pc, session, mapTile_list, coords, total_count,
                 offset, page_items, listing_id, downloaded_listingIDs,
                 updated_listingIDs, preview_mapTileList, overview, pricing, docs,
                 debug, last, map_response, fetched, poll, req, payloads, today, desc >>

\* scrapeReviewsToFile is called for a listing whose data declare a review count
StartReviews(count) ==
    /\ rev.pc \in {"idle", "saved"}
    /\ ctx.scrapeReviews
    /\ rev' = [pc |-> "loop", reviewsCount |-> count, offset |-> 0,
               reviews_list |-> << >>, requested |-> << >>, saved |-> "None"]
    /\ ReviewsFrame

\* one turn of the `while`: a request at rev.offset whose response holds n reviews
ReviewPage(n) ==
    /\ rev.pc = "loop"
    /\ rev.offset < rev.reviewsCount
    /\ Len(rev.requested) < MaxReviewPages
    /\ LET len  == Len(rev.reviews_list)
           kept == KeptOfPage(len, n, ctx.isWebPreview)
           jump == IF Capped(len, n, ctx.isWebPreview) THEN OffsetJump ELSE 0
       IN  rev' = [rev EXCEPT
                     !.reviews_list = @ \o SubSeq(ReviewsOfPage(rev.offset, n), 1, kept),
                     !.requested = Append(@, [offset |-> rev.offset, n |-> n]),
                     !.offset = @ + jump + ReviewPageSize]
    /\ ReviewsFrame

\* the `while` ends: the list is saved in the reviews folder
SaveReviews ==
    /\ rev.pc = "loop"
    /\ ~ (rev.offset < rev.reviewsCount)
    /\ rev' = [rev EXCEPT !.pc = "saved",
                          !.saved = [ListingID |-> "1", reviews |-> rev.reviews_list]]
    /\ ReviewsFrame

\* review counts a listing declares; the last is beyond the reach of the jump
\* that ends the loop in preview mode
ReviewCounts == { 0, 3, 24, 25, 50, OffsetJump + ReviewPageSize + 1 }
ReviewPageSizes == { 0, 3, 17, 24 }

ReviewsInit ==
    \E preview \in BOOLEAN :
        InitWith(Config("Germany", preview, TRUE, FALSE, 23), EmptyStore, EmptyStore,
                 SeedTile(23))

ReviewsNext ==
    \/ \E count \in ReviewCounts : StartReviews(count)
    \/ \E n \in ReviewPageSizes : ReviewPage(n)
    \/ SaveReviews

ReviewsSpec == ReviewsInit /\ [][ReviewsNext]_vars

-----------------------------------------------------------------------------
(* CapSpec: a run of 'explore' and 'stays' from empty folders over one tile  *)
(* of 27 pages, so that the number of known ids passes the preview cap on    *)
(* the sub-fetches in either pass.  'explore' shows new listings and listing *)
(* '1' again, 'stays' shows listings no page has shown                       *)

\* the id of a listing no page has shown so far
FreshId == ToString(Cardinality(downloaded_listingIDs \cup DOMAIN overview) + 1)

CapInit ==
    \E preview \in BOOLEAN, reviews \in BOOLEAN :
        InitWith(Config("Germany", preview, reviews, FALSE, 23),
                 EmptyStore, EmptyStore, SeedTile(23))

CapNext ==
    \/ RunPass
    \/ NextTile(CountResponse(469))
    \/ \E id \in { FreshId, "1" } : ProcessExplore(ExploreItem(id, {"Germany"}), TRUE)
    \/ ProcessStays(StaysItem("StaySearchResult", IdToken(FreshId)), DetailPage, TRUE)
    \/ EndPage
    \/ EndPass
    \/ Finish

CapSpec == CapInit /\ [][CapNext]_vars

-----------------------------------------------------------------------------
(* GCPManager.wait_for_workflow_completion: polling a Dataform workflow *)

\* timeout_seconds, by its default
PollTimeout == 600

\* `time.sleep(7)` after a poll that found the workflow RUNNING
RunningSleep == 7

\* `time.sleep(4)` after a poll that found any other unfinished state
PendingSleep == 4

\* `start_time = time.time()`: the call begins
StartPoll ==
    /\ poll.pc = "idle"
    /\ poll' = [pc |-> "loop", elapsed |-> 0, state |-> "None"]
    /\ UNCHANGED << ctx, stage, runner_type, pc, session, mapTile_list, coords,
                    total_count, offset, page_items, listing_id, downloaded_listingIDs,
                    updated_listingIDs, preview_mapTileList, overview, pricing, docs,
                    debug, last, map_response, fetched, req, payloads, today, desc, rev >>

\* One turn of the `while` loop whose test passed: get_workflow_invocation takes
\* `took` seconds and answers the state `st`.  SUCCEEDED and CANCELLED return the
\* invocation; FAILED logs the error details and falls to the loop test; RUNNING
\* sleeps 7 seconds and every other state 4.
PollOnce(st, took) ==
    /\ poll.pc = "loop"
    /\ poll.elapsed < PollTimeout
    /\ poll' = [pc |-> IF st = "SUCCEEDED" \/ st = "CANCELLED" THEN "returned" ELSE "loop",
                elapsed |-> poll.elapsed + took
                            + (IF st = "RUNNING" THEN RunningSleep
                               ELSE IF st = "SUCCEEDED" \/ st = "CANCELLED" \/ st = "FAILED"
                                    THEN 0
                                    ELSE PendingSleep),
                state |-> st]
    /\ UNCHANGED << ctx, stage, runner_type, pc, session, mapTile_list, coords,
                    total_count, offset, page_items, listing_id, downloaded_listingIDs,
                    updated_listingIDs, preview_mapTileList, overview, pricing, docs,
                    debug, last, map_response, fetched, req, payloads, today, desc, rev >>

\* The loop test fails: `raise TimeoutError(...)`
PollTimedOut ==
    /\ poll.pc = "loop"
    /\ poll.elapsed >= PollTimeout
    /\ poll' = [poll EXCEPT !.pc = "TimeoutError"]
    /\ UNCHANGED << ctx, stage, runner_type, pc, session, mapTile_list, coords,
                    total_count, offset, page_items, listing_id, downloaded_listingIDs,
                    updated_listingIDs, preview_mapTileList, overview, pricing, docs,
                    debug, last, map_response, fetched, req, payloads, today, desc, rev >>

PollInit == InitWith(Config("Germany", FALSE, FALSE, FALSE, 23), EmptyStore, EmptyStore,
                     SeedTile(23))

PollNext ==
    \/ StartPoll
    \/ \E st \in { "SUCCEEDED", "FAILED", "CANCELLED", "RUNNING", "STATE_UNSPECIFIED" },
          took \in 1..2 : PollOnce(st, took)
    \/ PollTimedOut

PollSpec == PollInit /\ [][PollNext]_vars

-----------------------------------------------------------------------------
(* Properties of the Discovery and Fallback passes (under Spec) *)

\* the step handles one listing of the page (one turn of `for e in listings`)
ItemStep == page_items' = page_items + 1

MergeStep ==
    /\ runner_type = "stays"
    /\ ItemStep
    /\ last'.effects = {"overview"}

\* C2 as stated: after a 'stays' listing that decodes to the id of a stored
\* record has been handled, the record holds every key of the listing -
\* whatever the listing's other fields are
C2_AnyItemMerged ==
    (/\ runner_type = "stays"
     /\ pc = "page"
     /\ "demandStayListing" \in DOMAIN last.e
     /\ ~ IsSplitStay(last.e)
     /\ DecodeListingId(last.e).ok
     /\ DecodeListingId(last.e).id \in DOMAIN overview)
    => DOMAIN last.e \subseteq DOMAIN overview[DecodeListingId(last.e).id]

\* C2, amended: a 'stays' listing is merged into the stored record of its id X
\* when it is no split stay, its __typename is 'StaySearchResult', X is in
\* downloaded_listingIDs and X is not yet in updated_listingIDs.  The merge
\* leaves one record for X whose keys are the keys of the record before, the
\* keys of the listing and RecordInserted, and changes no other record.  Any
\* other listing of X leaves the record as it is, and so does the rest of the
\* pass once X is in updated_listingIDs.
C2_MergeKeys ==
    [][ (runner_type = "stays" /\ runner_type' = "stays") =>
          /\ (ItemStep /\ last'.id \in DOMAIN overview) =>
                LET id == last'.id
                    e  == last'.e
                IN  IF /\ ~ IsSplitStay(e)
                       /\ "__typename" \in DOMAIN e
                       /\ e.__typename = "StaySearchResult"
                       /\ id \in downloaded_listingIDs
                       /\ id \notin updated_listingIDs
                    THEN /\ MergeStep
                         /\ DOMAIN overview' = DOMAIN overview
                         /\ DOMAIN overview'[id] =
                                DOMAIN overview[id] \cup DOMAIN e \cup {"RecordInserted"}
                         /\ \A other \in DOMAIN overview \ {id} :
                                overview'[other] = overview[other]
                         /\ id \in updated_listingIDs'
                    ELSE overview' = overview
          /\ \A id \in updated_listingIDs \cap DOMAIN overview :
                id \in DOMAIN overview' /\ overview'[id] = overview[id]
      ]_vars

\* C2, witness: the record of listing 1, saved by 'explore', after the 'stays'
\* pass merged a listing with new keys into it
C2_Witness ==
    /\ runner_type = "stays"
    /\ last.id = "1"
    /\ last.effects = {"overview"}
    /\ DOMAIN overview["1"] =
         {"id", "publicAddress", "name", "reviewsCount", "RecordInserted",
          "__typename", "demandStayListing", "avgRatingLocalized"}

\* C3: the merge keeps the value of every key only the stored record has, takes
\* the listing's value for every key both have, and adds every key only the
\* listing has (RecordInserted aside, which every save sets)
C3_MergeValues ==
    [][ MergeStep =>
          LET id  == last'.id
              e   == last'.e
              old == overview[id]
              new == overview'[id]
          IN  /\ \A k \in DOMAIN e \ {"RecordInserted"} :
                    k \in DOMAIN new /\ new[k] = e[k]
              /\ \A k \in (DOMAIN old \ DOMAIN e) \ {"RecordInserted"} :
                    k \in DOMAIN new /\ new[k] = old[k]
              /\ DOMAIN new \subseteq DOMAIN old \cup DOMAIN e \cup {"RecordInserted"}
      ]_vars

\* C3, witness: after a merge, listing 1 has reviewsCount from the stored
\* record only, name from both (the listing's value won), __typename from the
\* listing only
C3_Witness ==
    /\ runner_type = "stays"
    /\ last.id = "1"
    /\ last.effects = {"overview"}
    /\ overview["1"].reviewsCount = 3
    /\ overview["1"].name = "stays"
    /\ overview["1"].__typename = "StaySearchResult"
    /\ "name" \in DOMAIN last.e

-----------------------------------------------------------------------------
(* Properties of the pricing passes (under PriceSpec) *)

\* the 'pricing' turn hands its listing to extractPricingToFile
LedgerCall == runner_type = "pricing" /\ ItemStep /\ "ledger" \in last'.effects

\* the entries of a ledger for one guest count
PairEntries(prices, adults) == { i \in 1..Len(prices) : prices[i].adults = adults }

\* the step appends one entry to the ledger of id, and writes nothing else
LedgerAppend(id) ==
    LET before == ReadPricing(pricing, id).prices
    IN  /\ id \in DOMAIN pricing'
        /\ Len(pricing'[id].prices) = Len(before) + 1
        /\ SubSeq(pricing'[id].prices, 1, Len(before)) = before
        /\ pricing'[id].prices[Len(before) + 1].start_date = session.check_in
        /\ pricing'[id].prices[Len(before) + 1].adults = session.adults
        /\ \A other \in DOMAIN pricing \ {id} :
              other \in DOMAIN pricing' /\ pricing'[other] = pricing[other]
        /\ DOMAIN pricing' = DOMAIN pricing \cup {id}

\* C4: a listing handed to the ledger is appended if and only if the ledger of
\* its id has no entry for the same guest count whose check-in is on or after
\* the new check-in; otherwise nothing is written.  Entries for other guest
\* counts never block.
C4_LedgerAppendRule ==
    [][ LedgerCall =>
          LET id     == last'.id
              prices == ReadPricing(pricing, id).prices
          IN  IF \E i \in PairEntries(prices, session.adults) :
                    strptime(prices[i].start_date) >= strptime(session.check_in)
              THEN pricing' = pricing /\ "pricing" \notin last'.effects
              ELSE LedgerAppend(id) /\ "pricing" \in last'.effects
      ]_vars

\* C4, witness: a ledger took an entry although an entry for another guest
\* count has a later check-in, and the listing handed over last was refused
C4_Witness ==
    /\ runner_type = "pricing"
    /\ last.effects = {"ledger"}
    /\ last.id \in DOMAIN pricing
    /\ \E i, j \in 1..Len(pricing[last.id].prices) :
          LET prices == pricing[last.id].prices
          IN  /\ i < j
              /\ prices[i].adults # prices[j].adults
              /\ strptime(prices[i].start_date) > strptime(prices[j].start_date)

\* C5 as stated: an entry is accepted only if its check-in is strictly earlier
\* than the latest check-in recorded for the id and guest count
C5_OnlyEarlier ==
    [][ (LedgerCall /\ "pricing" \in last'.effects) =>
          LET prices == ReadPricing(pricing, last'.id).prices
              pair   == PairEntries(prices, session.adults)
          IN  pair # {} =>
                \E i \in pair : strptime(session.check_in) < strptime(prices[i].start_date)
      ]_vars

\* C5, amended: an entry is accepted only if its check-in is strictly later
\* than every check-in recorded for the id and guest count (an equal or an
\* earlier check-in is refused)
C5_OnlyLater ==
    [][ (LedgerCall /\ "pricing" \in last'.effects) =>
          LET prices == ReadPricing(pricing, last'.id).prices
          IN  \A i \in PairEntries(prices, session.adults) :
                strptime(prices[i].start_date) < strptime(session.check_in)
      ]_vars

\* C5, witness: a ledger with two entries for one guest count, the later one
\* just accepted
C5_Witness ==
    /\ runner_type = "pricing"
    /\ "pricing" \in last.effects
    /\ \E i, j \in 1..Len(pricing[last.id].prices) :
          LET prices == pricing[last.id].prices
          IN  /\ i < j
              /\ j = Len(prices)
              /\ prices[i].adults = prices[j].adults
              /\ strptime(prices[i].start_date) < strptime(prices[j].start_date)

\* C6 as stated: a listing is handed to the ledger only if its id is in
\* downloaded_listingIDs or was already put in updated_listingIDs in this pass
C6_OnlyKnownIds ==
    [][ LedgerCall =>
          \/ last'.id \in downloaded_listingIDs
          \/ last'.id \in updated_listingIDs
      ]_vars

\* C7 as stated: no step of a 'pricing' pass, its setup included, changes the
\* overview store or downloaded_listingIDs
C7_TrackerUntouched ==
    [][ runner_type' = "pricing" =>
          /\ overview' = overview
          /\ downloaded_listingIDs' = downloaded_listingIDs
      ]_vars

\* C7, amended: the 'pricing' passes leave the overview store (and the
\* calendar, description and review files) unchanged, and handling a listing
\* never changes downloaded_listingIDs; the list changes only in the setup of a
\* pass, which reloads it as the ids of the stored overview records
C7_StoreUntouched ==
    [][ runner_type' = "pricing" =>
          /\ overview' = overview
          /\ docs' = docs
          /\ downloaded_listingIDs' # downloaded_listingIDs =>
                /\ pc = "main"
                /\ downloaded_listingIDs' = DOMAIN overview
      ]_vars

\* C7, witness: a 'pricing' pass after the first wrote a ledger, with the
\* stored record of listing 1 as the Discovery pass left it
C7_Witness ==
    /\ runner_type = "pricing"
    /\ stage > 3
    /\ "pricing" \in last.effects
    /\ overview = "1" :> ExploredRecord("1")
    /\ downloaded_listingIDs = {"1"}

-----------------------------------------------------------------------------
(* Properties of the tile work-queue (C8 under TileSpec, C9 under QueueSpec) *)

\* a turn of `while mapTile_list` that read a total count
TileTurn == pc = "tiles" /\ mapTile_list # << >> /\ pc' # "raised"

\* the step handles no listing and writes no store
NoItemProcessed ==
    UNCHANGED << page_items, overview, pricing, docs, debug, downloaded_listingIDs,
                 updated_listingIDs, preview_mapTileList >>

\* C8: the popped tile is accepted (paged as it is) if and only if its total
\* count is below 240 or its zoom is 23 or more; otherwise it is subdivided:
\* its four children join the end of the queue and no listing of it is
\* processed.  So a tile at zoom 23 with a count of 1000 is accepted, and a
\* count of exactly 240 below zoom 23 is subdivided.
C8_TileDecision ==
    [][ TileTurn =>
          LET c == Head(mapTile_list)
          IN  /\ coords' = c
              /\ IF total_count' < 240 \/ c.zoom >= 23
                 THEN /\ mapTile_list' = Tail(mapTile_list)
                      /\ offset' = 0
                      /\ pc' = IF total_count' > 0 THEN "page" ELSE "tiles"
                 ELSE /\ Len(mapTile_list') = Len(mapTile_list) + 3
                      /\ SubSeq(mapTile_list', 1, Len(mapTile_list) - 1) = Tail(mapTile_list)
                      /\ \A i \in Len(mapTile_list)..Len(mapTile_list') :
                            mapTile_list'[i].zoom = c.zoom + 1
                      /\ pc' = "tiles"
                      /\ page_items' = 0
                      /\ NoItemProcessed
      ]_vars

\* C8, witness: a seed at zoom 22 was subdivided on a count of 240 or more and
\* its first child, at zoom 23, is being paged although it reported 1000
C8_Witness ==
    /\ pc = "page"
    /\ coords.zoom = 23
    /\ total_count = 1000
    /\ Len(mapTile_list) = 3
    /\ \A i \in 1..3 : mapTile_list[i].zoom = 23

\* subdivisions between the seed of the pass and tile t
Depth(t) == t.zoom - ctx.mapTile_init[1].zoom

\* C9: a pass's tile queue eventually becomes empty.  No queued tile is more
\* than (23 - z) subdivisions below a seed of zoom z, none lies above zoom 23
\* unless it is a seed, and every pass under way ends: the queue runs empty
\* and iterateMapTiles returns, or an exception ends the run.
C9_QueueEmpties ==
    /\ [](\A i \in 1..Len(mapTile_list) :
            /\ Depth(mapTile_list[i]) >= 0
            /\ Depth(mapTile_list[i]) <= Max(0, ZoomCeiling - ctx.mapTile_init[1].zoom))
    /\ (pc \in {"tiles", "page"}) ~> (pc = "raised" \/ (pc = "main" /\ mapTile_list = << >>))

\* C9, witness: a pass that subdivided its seed at zoom 21 and then a child has
\* emptied the queue and returned; the last tile it popped is a grandchild
C9_Witness ==
    /\ pc = "main"
    /\ stage >= 1
    /\ mapTile_list = << >>
    /\ Depth(coords) = 2
    /\ coords.zoom = ZoomCeiling

-----------------------------------------------------------------------------
(* Properties of divide_map_tiles (under DivideSpec) *)

\* the unit cells of the doubled grid that lie inside tile t, by their centres
Cells(t) ==
    { << 2 * x + 1, 2 * y + 1 >> : x \in t.swLat..(t.neLat - 1), y \in t.swLng..(t.neLng - 1) }

\* the grid points of the closed rectangle of tile t
Points(t) == (t.swLat..t.neLat) \X (t.swLng..t.neLng)

\* C10: divide_map_tiles gives exactly four children, each at the parent's
\* zoom + 1, each with its north-east corner at or beyond its south-west
\* corner, with pairwise disjoint interiors, and whose union is exactly the
\* parent rectangle
C10_DivideExact ==
    (pc = "main" /\ mapTile_list # << >>) =>
        /\ Len(mapTile_list) = 4
        /\ \A i \in 1..4 :
              /\ mapTile_list[i].zoom = coords.zoom + 1
              /\ mapTile_list[i].neLat >= mapTile_list[i].swLat
              /\ mapTile_list[i].neLng >= mapTile_list[i].swLng
        /\ \A i, j \in 1..4 :
              i # j => Cells(mapTile_list[i]) \cap Cells(mapTile_list[j]) = {}
        /\ UNION { Cells(mapTile_list[i]) : i \in 1..4 } = Cells(coords)
        /\ UNION { Points(mapTile_list[i]) : i \in 1..4 } = Points(coords)

\* C10, witness: a parent with a positive area on both axes, divided
C10_Witness ==
    /\ pc = "main"
    /\ Len(mapTile_list) = 4
    /\ coords.neLat - coords.swLat >= 4
    /\ coords.neLng - coords.swLng >= 2

-----------------------------------------------------------------------------
(* Properties of paging (under TileSpec) *)

\* the step closes a page that returned listings
PageDone == pc = "page" /\ page_items > 0 /\ page_items' = 0

\* C11: an accepted tile with total count N whose pages all return listings is
\* paged at exactly the offsets 0, 18, 36, ... below N, in increasing order:
\* paging starts at offset 0, every page under way is at a multiple of 18 below
\* N, a finished page is followed by the page 18 further on if that is below N
\* and by the next tile otherwise - ceil(N/18) pages in all.  For N = 50 the
\* offsets are 0, 18, 36.
C11_PageOffsets ==
    /\ [](pc = "page" => /\ offset >= 0
                         /\ offset % 18 = 0
                         /\ offset < total_count
                         /\ (total_count = 50 => offset \in {0, 18, 36}))
    /\ [][ /\ (pc = "tiles" /\ pc' = "page") => offset' = 0
           /\ PageDone =>
                /\ offset' = offset + 18
                /\ pc' = IF offset + 18 < total_count THEN "page" ELSE "tiles"
                /\ pc' = "tiles" =>
                      \* the pages fetched: offset' / 18 = ceil(total_count / 18)
                      (offset' \div 18) = ((total_count + 17) \div 18)
           /\ (pc = "page" /\ pc' = "page") => offset' \in {offset, offset + 18}
         ]_vars

\* C11, witness: the tile of 50 listings is left after its third page, the one
\* at offset 36
C11_Witness ==
    /\ pc = "tiles"
    /\ total_count = 50
    /\ offset = 54
    /\ last = NoLast

-----------------------------------------------------------------------------
(* Properties of makeRequest (under RequestSpec) *)

\* the outcome of an attempt is retryable: an exception, or a status other than
\* 415 and a 200 whose text decodes
Retryable(outcome) ==
    \/ outcome.exception \notin {"none", "unsent"}
    \/ /\ outcome.exception = "none"
       /\ outcome.status_code # 415
       /\ ~ (outcome.status_code = 200 /\ outcome.decodable)

\* the sleeps of one kind a call has taken, in order
SleptOf(kind) == SelectSeq(req.slept, LAMBDA z : z.kind = kind)

\* C12: a call whose every attempt fails with a retryable outcome issues exactly
\* 8 HTTP attempts and then returns None; no call issues more than 8 attempts,
\* and request_error_count stays within 0..8 (it counts the attempts).  A call
\* that returned after a retryable outcome is one whose attempts all were
\* retryable, since any other outcome ends the call at once.
C12_RetryExhaustion ==
    /\ req.attempts \in 0..8
    /\ req.request_error_count \in 0..8
    /\ req.request_error_count = req.attempts
    /\ req.pc \in {"idle", "top", "send", "returned"}
    /\ (req.pc = "returned" /\ Retryable(req.status)) =>
          (req.attempts = 8 /\ req.result = "None")
    /\ (req.attempts = 8 /\ Retryable(req.status)) => req.pc \in {"top", "returned"}

\* C12, witness: a call that timed out on its eighth attempt has returned None
C12_Witness ==
    /\ req.pc = "returned"
    /\ req.attempts = 8
    /\ req.result = "None"
    /\ req.status = HttpException("Timeout")

\* C14: the sleep taken before an attempt depends only on the number n of
\* attempts made so far: none for n = 0, 10*n seconds for n in 1..3, 60*n
\* seconds for n in 4..7; at n = 8 the cooldown of 3600 s is taken, no request
\* follows and the call returns None
C14_BackoffSchedule ==
    [][ req.pc = "top" =>
          LET n == req.request_error_count
          IN  /\ req'.attempts = req.attempts
              /\ IF n = 0
                 THEN req'.slept = req.slept /\ req'.pc = "send"
                 ELSE IF n \in 1..3
                 THEN /\ req'.slept = Append(req.slept, Slept("backoff", 10 * n))
                      /\ req'.pc = "send"
                 ELSE IF n \in 4..7
                 THEN /\ req'.slept = Append(req.slept, Slept("backoff", 60 * n))
                      /\ req'.pc = "send"
                 ELSE /\ n = 8
                      /\ req'.slept = Append(req.slept, Slept("cooldown", 3600))
                      /\ req'.pc = "returned"
                      /\ req'.result = "None"
      ]_vars

\* C14, witness: a call that went through the whole schedule and gave up
C14_Witness ==
    /\ req.pc = "returned"
    /\ req.result = "None"
    /\ SleptOf("backoff") =
         << Slept("backoff", 10), Slept("backoff", 20), Slept("backoff", 30),
            Slept("backoff", 240), Slept("backoff", 300), Slept("backoff", 360),
            Slept("backoff", 420) >>
    /\ SleptOf("cooldown") = << Slept("cooldown", 3600) >>

\* the attempt of this step received the status
Received(status_code) ==
    /\ req.pc = "send"
    /\ req'.status.exception = "none"
    /\ req'.status.status_code = status_code

\* C15: an attempt that receives 415 ends the call at once with None, whatever
\* the attempt count: no further attempt, no backoff and no cooldown (only the
\* pause of under a second that closes every attempt)
C15_UnsupportedMediaEnds ==
    [][ Received(415) =>
          /\ req'.pc = "returned"
          /\ req'.result = "None"
          /\ req'.attempts = req.attempts + 1
          /\ req'.slept = Append(req.slept, Pause)
      ]_vars

\* C15, witness: a call ended by a 415 on its fourth attempt
C15_Witness ==
    /\ req.pc = "returned"
    /\ req.result = "None"
    /\ req.status = HttpResponse(415, TRUE)
    /\ req.attempts = 4

\* C16: an attempt that receives 429 takes the cooldown of 1200 s, counts as one
\* attempt and is retried; it counts toward the cap like any retryable failure,
\* so a call whose attempts all receive 429 gives up after the eighth
C16_RateLimited ==
    /\ [][ Received(429) =>
             /\ req'.slept = req.slept \o << Slept("cooldown", 1200), Pause >>
             /\ req'.request_error_count = req.request_error_count + 1
             /\ req'.attempts = req.attempts + 1
             /\ req'.pc = "top"
             /\ req'.result = "pending"
         ]_vars
    /\ [](Len(SleptOf("cooldown")) >= 8 =>
             /\ req.attempts = 8
             /\ req.pc \in {"top", "returned"}
             /\ (req.pc = "returned" => req.result = "None"))

\* C16, witness: eight 429 in a row, eight cooldowns of 1200 s, then the call
\* gave up
C16_Witness ==
    /\ req.pc = "returned"
    /\ req.result = "None"
    /\ req.attempts = 8
    /\ Len(SleptOf("cooldown")) = 9
    /\ \A i \in 1..8 : SleptOf("cooldown")[i] = Slept("cooldown", 1200)

-----------------------------------------------------------------------------
(* Properties of the handling of missing responses and ids *)

\* the step reads the first-page response of the tile it pops
FirstPageRead == pc = "tiles" /\ mapTile_list # << >>

\* the step reads the response of a later page, which holds no listing
LaterPageRead == pc = "page" /\ page_items = 0 /\ page_items' = 0 /\ offset > 0

\* C13 as stated (under Spec): when makeRequest returns None for the first page
\* of a tile or for a later page, in any pass, the tile is skipped and the pass
\* goes on with the queue: it does not raise
C13_ExhaustedSkipsTile ==
    [][ ((FirstPageRead \/ LaterPageRead) /\ map_response'.kind = "noresponse") =>
          /\ pc' = "tiles"
          /\ UNCHANGED << overview, pricing, downloaded_listingIDs, updated_listingIDs >>
      ]_vars

\* C17 as stated (under TileSpec): in every pass, when the first-page response
\* is absent, lacks the count field, or has a count text without a number, the
\* count is 0: the tile is accepted, gives no page and no listing, and the pass
\* goes on with the next tile
C17_CountDefaultsToZero ==
    [][ (FirstPageRead /\ map_response'.kind \in {"noresponse", "missing", "nodigits"}) =>
          /\ pc' = "tiles"
          /\ total_count' = 0
          /\ mapTile_list' = Tail(mapTile_list)
      ]_vars

\* C18 as stated (under Spec): a 'stays' listing whose id cannot be decoded is
\* discarded, wherever it stands in its page: no store write, no change to
\* downloaded_listingIDs or updated_listingIDs, and no exception
C18_UndecodableDiscarded ==
    [][ (/\ runner_type = "stays"
         /\ ItemStep
         /\ ~ IsSplitStay(last'.e)
         /\ ~ DecodeListingId(last'.e).ok) =>
          /\ pc' = "page"
          /\ UNCHANGED << overview, pricing, docs, downloaded_listingIDs,
                          updated_listingIDs >>
      ]_vars

\* C19 as stated (under Spec): a 'stays' listing whose id is neither downloaded
\* nor updated triggers one property-detail request; if the response reports an
\* error or holds no usable detail (makeRequest returning None included) no
\* overview record is saved and the pass goes on; otherwise the detail merged
\* with the listing is saved as a new record and the id is in both id lists
C19_DetailFallback ==
    [][ (/\ runner_type = "stays"
         /\ ItemStep
         /\ ~ IsSplitStay(last'.e)
         /\ DecodeListingId(last'.e).ok
         /\ last'.id \notin downloaded_listingIDs
         /\ last'.id \notin updated_listingIDs) =>
          /\ "detail" \in DOMAIN last'
          /\ "detail" \in last'.effects
          /\ IF DetailUsable(last'.detail)
             THEN /\ "overview" \in last'.effects
                  /\ last'.id \in DOMAIN overview'
                  /\ DOMAIN last'.e \cup DOMAIN last'.detail.page \subseteq DOMAIN overview'[last'.id]
                  /\ last'.id \in downloaded_listingIDs' \cap updated_listingIDs'
             ELSE /\ overview' = overview
                  /\ pc' = "page"
      ]_vars

-----------------------------------------------------------------------------
(* Properties of the payload builders (under PayloadSpec) *)

\* what a builder reads besides its arguments
Reads(call) ==
    IF call.builder = "createPricingPayload"
    THEN << call.session.adults, call.session.check_in, call.session.check_out >>
    ELSE IF call.builder = "createCalendarPayload"
    THEN call.now
    ELSE << >>

\* C20 as stated: two calls of a payload builder with identical arguments
\* return identical payloads, whatever passes were set up or calls were made
\* between them
C20_SameArgsSamePayload ==
    \A a \in payloads, b \in payloads : SameCall(a, b) => a.payload = b.payload

\* C20, amended: two calls of the explore, property-detail or reviews builder
\* with identical arguments return identical payloads whatever happened in
\* between; two calls of the map builder of 'stays'/'pricing' do when the
\* session's adults, check_in and check_out are the same at both calls, and two
\* calls of the calendar builder do when both fall in the same month
C20_PayloadDependsOn ==
    \A a \in payloads, b \in payloads :
        (SameCall(a, b) /\ Reads(a) = Reads(b)) => a.payload = b.payload

\* the explore builder was called with the same arguments under two sessions
\* with different guests, and returned the same payload
C20_Witness ==
    \E a \in payloads, b \in payloads :
        /\ a.builder = "createExplorePayload"
        /\ SameCall(a, b)
        /\ a.session.adults # b.session.adults
        /\ a.payload = b.payload

-----------------------------------------------------------------------------
(* Properties of the pass sequence (under ScheduleSpec) *)

\* the step starts a pass: iterateMapTiles is called
PassStart == pc = "main" /\ pc' = "tiles"

\* C21: the passes run in a fixed order.  A pass starts only when the queue of
\* the pass before is empty; the first pass is 'explore', the pass after
\* 'explore' is 'stays', and 'pricing' passes follow only when pricing is
\* enabled.  The first 'pricing' pass has 2 guests; a next one has the same
\* dates and one guest more, or, after 6 guests, a strictly later check-in and
\* 2 guests.  The run ends after 'stays' when pricing is disabled and after the
\* pass with 6 guests of the last date window otherwise
C21_PassOrder ==
    /\ [][ PassStart =>
            /\ mapTile_list = << >>
            /\ (runner_type' = "explore") = (runner_type = "none")
            /\ (runner_type' = "stays") = (runner_type = "explore")
            /\ runner_type' = "pricing" =>
                 /\ ctx.scrapePricing
                 /\ runner_type \in {"stays", "pricing"}
                 /\ session'.adults \in 2..6
                 /\ runner_type = "stays" => session'.adults = 2
                 /\ runner_type = "pricing" =>
                      \/ /\ session'.check_in = session.check_in
                         /\ session'.check_out = session.check_out
                         /\ session'.adults = session.adults + 1
                      \/ /\ strptime(session'.check_in) > strptime(session.check_in)
                         /\ session.adults = 6
                         /\ session'.adults = 2
         ]_vars
    /\ [](pc = "done" =>
            IF ctx.scrapePricing
            THEN /\ runner_type = "pricing"
                 /\ session.adults = 6
                 /\ session.check_in = Window(NumWindows).start
                 /\ stage = 2 + 5 * NumWindows
            ELSE runner_type = "stays" /\ stage = 2)

\* a run with pricing enabled has ended after all its pricing passes
C21_Witness ==
    /\ pc = "done"
    /\ ctx.scrapePricing
    /\ runner_type = "pricing"
    /\ session.adults = 6
    /\ stage = 2 + 5 * NumWindows

-----------------------------------------------------------------------------
(* Properties of the 'stays' pass and of the filters (under Spec) *)

\* the overview records the step wrote
Written == { id \in DOMAIN overview' : id \notin DOMAIN overview \/ overview'[id] # overview[id] }

\* C22: within one 'stays' pass every id causes at most one overview write.  A
\* turn of the pass writes at most the record of the id it handles, and only
\* when that id was not yet in updated_listingIDs and is in it afterwards; the
\* list does not shrink during the pass; and a listing whose id is already in
\* the list is skipped (no write, no property-detail request, no sub-fetch)
C22_OneWritePerPass ==
    [][ (runner_type = "stays" /\ ItemStep) =>
          /\ updated_listingIDs \subseteq updated_listingIDs'
          /\ DOMAIN overview \subseteq DOMAIN overview'
          /\ (Written # {} \/ "overview" \in last'.effects) =>
                /\ Written \subseteq { last'.id }
                /\ last'.id \notin updated_listingIDs
                /\ last'.id \in updated_listingIDs'
          /\ (~ IsSplitStay(last'.e) /\ last'.id \in updated_listingIDs) =>
                /\ last'.effects = {}
                /\ UNCHANGED << overview, docs, updated_listingIDs >>
      ]_vars

\* a listing follows a listing of the same id whose record the pass has just
\* merged, and is skipped
C22_Witness ==
    /\ runner_type = "stays"
    /\ pc = "page"
    /\ page_items = 2
    /\ DecodeListingId(last.e).ok
    /\ "__typename" \in DOMAIN last.e
    /\ last.e.__typename = "StaySearchResult"
    /\ last.effects = {}
    /\ last.id \in updated_listingIDs
    /\ last.id \in DOMAIN overview
    /\ overview[last.id].RecordInserted = stage
    /\ "structuredDisplayPrice" \in DOMAIN overview[last.id]

\* the data of a listing as _processListings handles it
ItemData(e) == IF "listing" \in DOMAIN e THEN e.listing ELSE e

\* the listing declares a public address that does not name the country of the run
Mismatch(e) ==
    /\ "publicAddress" \in DOMAIN ItemData(e)
    /\ ItemData(e).publicAddress # {}
    /\ ctx.country \notin ItemData(e).publicAddress

\* the step saved no overview record and made no sub-fetch
NotPersisted ==
    /\ UNCHANGED << overview, docs >>
    /\ last'.effects \cap {"overview", "calendar", "description", "translation", "reviews"} = {}

\* C23 as stated: in the 'explore' and 'stays' passes a listing whose public
\* address does not match the country of the run is never saved as an overview
\* record and receives no sub-fetch, whatever the country
C23_MismatchNeverPersisted ==
    [][ (runner_type \in {"explore", "stays"} /\ ItemStep /\ Mismatch(last'.e)) =>
          NotPersisted
      ]_vars

\* C23, amended: when the country of the run is Singapore, a listing whose
\* public address does not name Singapore is not saved and receives no
\* sub-fetch in the 'explore' pass, nor in the 'stays' pass unless its id is
\* already in downloaded_listingIDs (the merge into the stored record is not
\* filtered); a run for another country has no filter
C23_SingaporeFilter ==
    [][ (/\ runner_type \in {"explore", "stays"}
         /\ ItemStep
         /\ ctx.country = "Singapore"
         /\ Mismatch(last'.e)
         /\ runner_type = "stays" => last'.id \notin downloaded_listingIDs) =>
          NotPersisted
      ]_vars

\* a Singapore run has handled a new 'stays' listing with an address in
\* Malaysia, fetched its detail, and dropped it
C23_Witness ==
    /\ ctx.country = "Singapore"
    /\ runner_type = "stays"
    /\ pc = "page"
    /\ "publicAddress" \in DOMAIN last.e
    /\ "Singapore" \notin last.e.publicAddress
    /\ "detail" \in DOMAIN last
    /\ DetailUsable(last.detail)
    /\ last.id \in downloaded_listingIDs
    /\ last.id \notin DOMAIN overview

-----------------------------------------------------------------------------
(* Properties of composite offers and of empty pages (under TileSpec) *)

\* a composite offer: it carries split-stay listings or lacks a stay listing
Composite(e) ==
    \/ "splitStaysListings" \in DOMAIN e /\ e.splitStaysListings # << >>
    \/ "demandStayListing" \notin DOMAIN e

\* C24: in the 'stays' and 'pricing' passes a composite offer is discarded
\* before its id is derived: no overview record, no ledger, no sub-fetch
\* document and no debug file is written, no request is made, the id lists and
\* the local listing_id are unchanged, and the page goes on
C24_CompositeDiscarded ==
    [][ (runner_type \in {"stays", "pricing"} /\ ItemStep /\ Composite(last'.e)) =>
          /\ last'.effects = {}
          /\ "detail" \notin DOMAIN last'
          /\ UNCHANGED << overview, pricing, docs, debug, downloaded_listingIDs,
                          updated_listingIDs, listing_id, pc >>
      ]_vars

\* a 'pricing' page has handled a listing and then a split-stay offer of the
\* same id
C24_Witness ==
    /\ runner_type = "pricing"
    /\ pc = "page"
    /\ page_items = 2
    /\ "splitStaysListings" \in DOMAIN last.e
    /\ last.effects = {}
    /\ listing_id = "1"
    /\ "1" \in updated_listingIDs

\* the step reads a page that holds no listing
EmptyPageRead == pc = "page" /\ page_items = 0 /\ page_items' = 0

\* C25 as stated: when a page of an accepted tile, at an offset below the
\* tile's count, yields no listing, the response is written to the debug
\* folder and the tile is left: no further page is requested, what the earlier
\* pages stored stays, and the pass goes on with the queue without raising
C25_EmptyPageAbandonsTile ==
    [][ (EmptyPageRead /\ offset < total_count) =>
          /\ pc' = "tiles"
          /\ "no_listing_data" \in debug'
          /\ UNCHANGED << mapTile_list, overview, pricing, docs, downloaded_listingIDs,
                          updated_listingIDs, offset >>
      ]_vars

-----------------------------------------------------------------------------
(* Properties of the description files (under DescriptionSpec) *)

\* the step is the translate call of scrapeDescriptionToFile
TranslationStep == desc.pc = "translate" /\ desc'.pc # "translate"

\* C26: the translated description of a listing is requested only after the
\* call for its untranslated description, which has saved a document with the
\* key originalDescription; the translate call adds translatedDescription to
\* that document, changes no other key but the time stamp, and leaves the
\* documents of the other listings alone
C26_TranslationKeepsOriginal ==
    [][ TranslationStep =>
          LET id == desc.id
          IN  /\ Len(desc.calls) > 0
              /\ desc.calls[Len(desc.calls)] = << id, FALSE >>
              /\ id \in DOMAIN desc.files
              /\ "originalDescription" \in DOMAIN desc.files[id]
              /\ desc'.pc = "idle"
              /\ DOMAIN desc'.files = DOMAIN desc.files
              /\ DOMAIN desc'.files[id] =
                    DOMAIN desc.files[id] \cup {"translatedDescription"}
              /\ desc'.files[id].originalDescription = desc.files[id].originalDescription
              /\ \A other \in DOMAIN desc.files \ {id} :
                    desc'.files[other] = desc.files[other]
      ]_vars

\* a document holds the untranslated text and, under its own key, another text
C26_Witness ==
    /\ desc.pc = "idle"
    /\ Len(desc.calls) = 2
    /\ desc.calls[2] = << "1", TRUE >>
    /\ "1" \in DOMAIN desc.files
    /\ DOMAIN desc.files["1"] =
          {"originalDescription", "translatedDescription", "RecordInserted"}
    /\ desc.files["1"].originalDescription = "a"
    /\ desc.files["1"].translatedDescription = "b"

-----------------------------------------------------------------------------
(* Properties of the review pages (under ReviewsSpec) *)

RECURSIVE Delivered(_)
\* the reviews of the pages requested so far, in the order they came
Delivered(pages) ==
    IF pages = << >> THEN << >>
    ELSE Delivered(SubSeq(pages, 1, Len(pages) - 1))
         \o ReviewsOfPage(pages[Len(pages)].offset, pages[Len(pages)].n)

\* the jump of the preview cap ends the loop
JumpEndsLoop == rev.reviewsCount <= OffsetJump + ReviewPageSize

\* the pages are requested at offsets 0, 24, 48, ... below the review count
PagesInOrder ==
    \A i \in 1..Len(rev.requested) :
        /\ rev.requested[i].offset = ReviewPageSize * (i - 1)
        /\ rev.requested[i].offset < rev.reviewsCount

-----------------------------------------------------------------------------
(* Properties of the pass setup and of the tile seeds (under TileSpec) *)

\* the ids of the 'listing_stays' documents of the stored overview records
ListingStaysIds ==
    { id \in {"1", "2", "3"} :
        \E file \in DOMAIN overview :
            /\ "listing_stays" \in DOMAIN overview[file]
            /\ overview[file].listing_stays.id = id }

\* C28 as stated: updated_listingIDs is empty when an 'explore', 'stays' or
\* 'pricing' pass starts on its first tile
C28_UpdatedEmptyAtPassStart ==
    [][ PassStart => updated_listingIDs' = {} ]_vars

\* C28, amended: updated_listingIDs is set anew when a pass starts, whatever it
\* held: it is empty at the start of an 'explore' and of a 'pricing' pass, and
\* at the start of a 'stays' pass it holds the ids of the 'listing_stays'
\* documents of the stored overview records (none, when no record has one)
C28_UpdatedResetAtPassStart ==
    [][ PassStart =>
          updated_listingIDs' = IF runner_type' = "stays" THEN ListingStaysIds ELSE {}
      ]_vars

\* a 'pricing' pass starts with an empty list after a pass that marked an id
C28_Witness ==
    /\ runner_type = "pricing"
    /\ pc = "tiles"
    /\ mapTile_list # << >>
    /\ mapTile_list = preview_mapTileList
    /\ updated_listingIDs = {}
    /\ "1" \in downloaded_listingIDs
    /\ "1" \in DOMAIN overview
    /\ "structuredDisplayPrice" \in DOMAIN overview["1"]

-----------------------------------------------------------------------------
(* Properties of the seeds of the work-queue (under ScheduleSpec) *)

\* C29: a pass starts with a work-queue equal to the full-region seed, except
\* a 'pricing' pass of a preview run, which starts with a work-queue equal to
\* preview_mapTileList.  No step changes the full-region seed, and no step of
\* a 'stays' or 'pricing' pass changes preview_mapTileList, whatever is popped
\* from the work-queue or appended to it, so every later pass finds the seed
\* the pass before found
C29_QueueSeededFromCopy ==
    [][ /\ PassStart =>
             mapTile_list' = IF ctx.isWebPreview /\ runner_type' = "pricing"
                             THEN preview_mapTileList
                             ELSE ctx.mapTile_init
        /\ ctx'.mapTile_init = ctx.mapTile_init
        /\ runner_type' # "explore" => preview_mapTileList' = preview_mapTileList
      ]_vars

\* the second 'pricing' pass of a preview run starts from the four tiles the
\* 'explore' pass accepted, after the first 'pricing' pass emptied its queue
C29_Witness ==
    /\ ctx.isWebPreview
    /\ runner_type = "pricing"
    /\ stage = 4
    /\ pc = "tiles"
    /\ Len(preview_mapTileList) = 4
    /\ mapTile_list = preview_mapTileList
    /\ mapTile_list # ctx.mapTile_init

\* C30: preview_mapTileList changes only in two ways: the start of the
\* 'explore' pass empties it, and a step of the 'explore' pass that accepts the
\* tile at the head of the work-queue (pops it without subdividing it) while at
\* most 70 ids are in downloaded_listingIDs appends that tile.  It never holds
\* a tile twice, and no step of a 'stays' or 'pricing' pass changes it
C30_PreviewSeedFromAcceptedTiles ==
    /\ [][ preview_mapTileList' # preview_mapTileList =>
             \/ /\ PassStart
                /\ runner_type' = "explore"
                /\ preview_mapTileList' = << >>
             \/ /\ runner_type = "explore"
                /\ pc = "tiles"
                /\ mapTile_list # << >>
                /\ Cardinality(downloaded_listingIDs) <= 70
                /\ mapTile_list' = Tail(mapTile_list)
                /\ preview_mapTileList' = Append(preview_mapTileList, Head(mapTile_list))
         ]_vars
    /\ [](\A i, j \in 1..Len(preview_mapTileList) :
            preview_mapTileList[i] = preview_mapTileList[j] => i = j)
    /\ [][ (runner_type = "stays" \/ runner_type = "pricing") =>
             preview_mapTileList' = preview_mapTileList ]_vars

\* the 'stays' pass under way after an 'explore' pass that subdivided the seed,
\* accepted the first child with 70 ids known, found listing '1' on it and
\* accepted the other three children with 71 ids known
C30_Witness ==
    /\ runner_type = "stays"
    /\ pc = "tiles"
    /\ mapTile_list = << >>
    /\ Len(preview_mapTileList) = 1
    /\ preview_mapTileList[1].zoom = ZoomCeiling
    /\ Cardinality(downloaded_listingIDs) = 71
    /\ "1" \in downloaded_listingIDs

-----------------------------------------------------------------------------
(* Properties of the preview cap on the sub-fetches (under CapSpec) *)

\* the listings a calendar, description or reviews document was requested for
SubFetched == docs.calendar \cup docs.description \cup docs.translated \cup docs.reviews

\* the sub-fetches the configuration enables
EnabledSubFetches ==
    (IF ctx.scrapeCalendar THEN {"calendar"} ELSE {})
    \cup (IF ctx.scrapeDescription THEN {"description"} ELSE {})
    \cup (IF ctx.scrapeDescription /\ ctx.translate /\ ctx.country \notin DO_NOT_TRANSLATE
          THEN {"translation"} ELSE {})
    \cup (IF ctx.scrapeReviews THEN {"reviews"} ELSE {})

\* C31: in a preview run that started from empty folders, at no point of the
\* 'explore' and 'stays' passes have more than 50 distinct listings received a
\* sub-fetch; outside preview, every turn that persists the overview record of
\* a listing that had none ran every enabled sub-fetch for that listing
C31_SubFetchCap ==
    /\ [](ctx.isWebPreview => Cardinality(SubFetched) <= 50)
    /\ [][ ( /\ ~ ctx.isWebPreview
             /\ ItemStep
             /\ DOMAIN overview' # DOMAIN overview )
           => /\ DOMAIN overview' = DOMAIN overview \cup {last'.id}
              /\ EnabledSubFetches \subseteq last'.effects
              /\ last'.id \in docs'.description ]_vars

\* a preview run in its 'stays' pass: 50 listings have their documents, one of
\* them created by this pass, and more than 50 overview records are stored
C31_Witness ==
    /\ ctx.isWebPreview
    /\ runner_type = "stays"
    /\ Cardinality(SubFetched) = 50
    /\ Cardinality(DOMAIN overview) > 50
    /\ \E id \in SubFetched : id \in debug
    /\ \E id \in DOMAIN overview \ SubFetched : id \in debug

-----------------------------------------------------------------------------
(* Further properties of the Discovery and Fallback passes (under Spec) *)

\* C32: at every point of an 'explore' or 'stays' pass, every id that has an
\* overview record on disk is in downloaded_listingIDs
C32_StoredIdsAreKnown ==
    (runner_type = "explore" \/ runner_type = "stays")
        => DOMAIN overview \subseteq downloaded_listingIDs

\* a 'stays' pass that stored listing 1 and tracked listing 3 without storing
\* it: the converse inclusion does not hold
C32_Witness ==
    /\ runner_type = "stays"
    /\ "1" \in DOMAIN overview
    /\ overview["1"].RecordInserted > 0
    /\ "3" \in downloaded_listingIDs
    /\ "3" \notin DOMAIN overview

\* C33: a turn of the 'stays' pass issues a property-detail request only for
\* an id that is not in downloaded_listingIDs, and leaves the id in
\* downloaded_listingIDs and in updated_listingIDs, whatever the detail holds;
\* neither list loses an id before the next pass starts.  So no id gets a
\* second detail request in the pass
C33_OneDetailRequestPerId ==
    [][ /\ ( runner_type = "stays" /\ ItemStep /\ "detail" \in last'.effects )
           => /\ last'.id \notin downloaded_listingIDs
              /\ last'.id \in downloaded_listingIDs'
              /\ last'.id \in updated_listingIDs'
        /\ ~ PassStart
           => /\ downloaded_listingIDs \subseteq downloaded_listingIDs'
              /\ updated_listingIDs \subseteq updated_listingIDs'
      ]_vars

\* listing 3 shows up again after its detail carried errorData: the turn is
\* skipped, with 3 in both lists and not stored
C33_Witness ==
    /\ runner_type = "stays"
    /\ pc = "page"
    /\ last.id = "3"
    /\ last.effects = {}
    /\ "error_data.json" \in debug
    /\ "3" \in downloaded_listingIDs
    /\ "3" \in updated_listingIDs
    /\ "3" \notin DOMAIN overview

-----------------------------------------------------------------------------
(* Properties of the map requests of a tile (under TileSpec) *)

\* max(1, ceil(n / 18))
TileCost(n) == IF n = 0 THEN 1 ELSE (n + 17) \div 18

\* the step leaves an accepted tile for the queue: after a page, or at once
\* when the count is 0
TileLeft ==
    /\ pc' = "tiles"
    /\ \/ pc = "page"
       \/ FirstPageRead /\ Len(mapTile_list') < Len(mapTile_list)

\* C34 as stated: every accepted tile with count N is left after
\* max(1, ceil(N/18)) map requests
C34_TileCostExact ==
    [][ TileLeft => Len(fetched') = TileCost(total_count') ]_vars

\* C34, amended: popping a tile issues one request, at offset 0; the first page
\* of an accepted tile issues none, and the requests of a tile are those at
\* offsets 0, 18, 36, ... in that order, each once.  A tile with count N is left
\* after at most max(1, ceil(N/18)) requests, and after exactly that many when
\* its last page was reached and returned listings.  A subdivided tile has had
\* its one request when the queue is taken up again, and no listing is handled
\* but from a page of an accepted tile
C34_TileRequests ==
    /\ [](\A i \in 1..Len(fetched) : fetched[i] = 18 * (i - 1))
    /\ [][ /\ FirstPageRead => fetched' = << 0 >>
           /\ (pc = "page" /\ offset = 0) => fetched' = fetched
           /\ TileLeft => Len(fetched') <= TileCost(total_count')
           /\ (TileLeft /\ (PageDone \/ FirstPageRead))
                 => Len(fetched') = TileCost(total_count')
           /\ (FirstPageRead /\ Len(mapTile_list') > Len(mapTile_list))
                 => /\ pc' = "tiles"
                    /\ page_items' = 0
                    /\ last' = NoLast
           /\ ItemStep => /\ pc = "page"
                          /\ Len(mapTile_list') = Len(mapTile_list)
         ]_vars

\* a tile of 50 listings left after the requests at offsets 0, 18 and 36
C34_Witness ==
    /\ pc = "tiles"
    /\ total_count = 50
    /\ fetched = << 0, 18, 36 >>
    /\ page_items = 0

-----------------------------------------------------------------------------
(* Further properties of the price ledger (under PriceSpec) *)

\* C35: in the ledger of every listing, of two entries with the same number of
\* adults the later one in the list has the strictly later check-in date (so
\* no listing has two entries for one number of adults and one check-in date);
\* and every step keeps every ledger and every entry in it, in place
C35_LedgerOrdered ==
    /\ [](\A id \in DOMAIN pricing :
            \A i, j \in 1..Len(pricing[id].prices) :
                ( i < j /\ pricing[id].prices[i].adults = pricing[id].prices[j].adults )
                => strptime(pricing[id].prices[i].start_date)
                     < strptime(pricing[id].prices[j].start_date))
    /\ [][ \A id \in DOMAIN pricing :
             /\ id \in DOMAIN pricing'
             /\ Len(pricing'[id].prices) >= Len(pricing[id].prices)
             /\ \A i \in 1..Len(pricing[id].prices) :
                    pricing'[id].prices[i] = pricing[id].prices[i]
         ]_vars

\* the ledger of listing 1 after both date windows with 3 adults, behind the
\* entry an earlier run left for 2 adults and the later of the two check-ins
C35_Witness ==
    /\ "1" \in DOMAIN pricing
    /\ Len(pricing["1"].prices) = 3
    /\ pricing["1"].prices[1].adults = 2
    /\ pricing["1"].prices[2].adults = 3
    /\ pricing["1"].prices[3].adults = 3
    /\ strptime(pricing["1"].prices[2].start_date)
         < strptime(pricing["1"].prices[1].start_date)

-----------------------------------------------------------------------------
(* Properties of the sub-fetches of a new listing (under Spec) *)

\* the enabled sub-fetches in the order _processListings calls them, and the
\* overview save
CallOrder ==
    SelectSeq(<< "calendar", "description", "translation", "reviews" >>,
              LAMBDA x : x \in EnabledSubFetches)
    \o << "overview" >>

\* the step handles an 'explore' listing with a new id, a review count and no
\* address the cross-country filter drops
AcceptedWithReviewCount ==
    /\ runner_type = "explore"
    /\ ItemStep
    /\ "listing" \in DOMAIN last'.e
    /\ "id" \in DOMAIN last'.e.listing
    /\ last'.e.listing.id \notin downloaded_listingIDs
    /\ "reviewsCount" \in DOMAIN last'.e.listing
    /\ ~ (ctx.country = "Singapore" /\ Mismatch(last'.e))

-----------------------------------------------------------------------------
(* Properties of the type tag in the Fallback pass (under Spec) *)

\* the step handles a 'stays' result that is no composite offer, whose id
\* decodes and is in downloaded_listingIDs
KnownStay ==
    /\ runner_type = "stays"
    /\ ItemStep
    /\ ~ Composite(last'.e)
    /\ Len(last'.e.demandStayListing.id) = 2
    /\ last'.e.demandStayListing.id[2] \in downloaded_listingIDs

\* the result handled carries the tag 'StaySearchResult'
Tagged == "__typename" \in DOMAIN last'.e /\ last'.e.__typename = "StaySearchResult"

\* C37: a 'stays' result with a known id and another type tag changes nothing:
\* no record, document or debug file is written, no request is made and both
\* id lists stay as they are - in particular the id is not marked updated, so
\* a result with the same id and the tag 'StaySearchResult' is merged when it
\* comes, as for every known id that is stored and not yet marked updated
C37_UntaggedKnownIsNoOp ==
    [][ /\ (KnownStay /\ ~ Tagged)
           => /\ UNCHANGED << overview, pricing, docs, debug, downloaded_listingIDs,
                              updated_listingIDs, pc >>
              /\ last'.effects = {}
        /\ ( /\ KnownStay
             /\ Tagged
             /\ last'.e.demandStayListing.id[2] \notin updated_listingIDs
             /\ last'.e.demandStayListing.id[2] \in DOMAIN overview )
           => /\ last'.effects = {"overview"}
              /\ last'.id \in updated_listingIDs'
              /\ \A k \in DOMAIN last'.e : overview'[last'.id][k] = last'.e[k]
      ]_vars

\* listing 1, stored by 'explore', has just come with the tag 'StayListing':
\* it is not marked updated and the page goes on
C37_Witness ==
    /\ runner_type = "stays"
    /\ pc = "page"
    /\ page_items < MaxPageItems
    /\ last.id = "1"
    /\ "__typename" \in DOMAIN last.e
    /\ last.e.__typename = "StayListing"
    /\ last.effects = {}
    /\ "1" \in downloaded_listingIDs
    /\ "1" \in DOMAIN overview
    /\ "1" \notin updated_listingIDs

-----------------------------------------------------------------------------
(* Properties of the workflow-completion poll (under PollSpec) *)

\* the step is one poll of the workflow's state
Polled == poll.pc = "loop" /\ poll' # poll /\ poll'.pc # "TimeoutError"

\* C38: the workflow-completion poll returns the invocation as soon as the polled
\* state is SUCCEEDED or CANCELLED, raises an error when the polled state is
\* FAILED instead of continuing to poll, and raises TimeoutError when no terminal
\* state is seen within the timeout.
C38_PollOutcome ==
    /\ [][ Polled =>
             /\ (poll'.state = "SUCCEEDED" \/ poll'.state = "CANCELLED")
                    => poll'.pc = "returned"
             /\ poll'.state = "FAILED" => poll'.pc # "loop" /\ poll'.pc # "returned" ]_vars
    /\ [][ (poll.pc = "loop" /\ poll.elapsed >= PollTimeout)
             => poll'.pc = "TimeoutError" ]_vars

====
